---- MODULE Spec2Model ----
(***************************************************************************)
(* FlatWiki: the encrypted backup job (src/lib: startBackupJob, runBackup, *)
(* runTarArchive, buildEncryptedBackup) and the search-index rebuild       *)
(* (startSearchIndexRebuild, ensureSearchIndexConsistency), modelled at    *)
(* the granularity of the event loop: one action per synchronous run of    *)
(* code between two awaits or between two stream/process events.           *)
(*                                                                         *)
(* Strings are sequences of tokens; the token " " is white space, so that  *)
(* String.prototype.trim is computed and not assumed.  An optional field   *)
(* (T | undefined) is a sequence of length 0 or 1.                         *)
(***************************************************************************)
EXTENDS Integers, Sequences, FiniteSets, TLC

VARIABLES
    env,            \* process.env.BACKUP_ENCRYPTION_KEY (a string, "" when unset)
    contentKey,     \* config.contentEncryptionKey as hex, None when not configured
    clock,          \* the wall clock (in seconds) when the program last read it
    backupStatus,   \* textDiff.ts:325
    backupPromise,  \* textDiff.ts:326  (None = null, Some(j) = promise of run j)
    runs,           \* the runBackup executions: run id -> locals and position
    files,          \* the backup directory: path -> content
    lastResult,     \* the value the startBackupJob call of this step returned
    pages,          \* wiki pages on disk (slug set), as listPages reports them
    indexFile,      \* searchIndexFile: None when missing, Some(slug set)
    buildStatus,    \* searchIndexStore.ts:56
    buildPromise,   \* searchIndexStore.ts:57
    rebuilds,       \* the runSearchIndexRebuild executions
    callers,        \* the ensureSearchIndexConsistency calls in progress
    fileOp,         \* the resolveBackupFilePath / deleteBackupFile call in progress
    lockReqs,       \* the withWriteLock / withMutationLock calls: id -> locals
    lockTail,       \* writeLocks (part_003:172) and mutationQueue: key -> last promise
    scanMode,       \* config.attachmentScanMode
    attDisk,        \* quarantine directory, attachments directory, attachments file
    fin,            \* the finalizeAttachmentFromQuarantine call in progress
    ops,            \* the calls that run under a lock: request id -> locals
    sealed,         \* the envelopes encryptSecret has returned so far
    secretOp,       \* the encryptSecret / decryptSecret call made last
    json,           \* the JSON files on disk and the writeJsonFile calls: locals
    upserts,        \* the upsertSearchIndexBySlug calls: id -> locals
    users           \* the user store: config.usersFile, mutationQueue, the calls

backupVars == <<env, contentKey, clock, backupStatus, backupPromise, runs, files, lastResult>>
indexVars  == <<pages, indexFile, buildStatus, buildPromise, rebuilds, callers>>
\* the state of the other library modules
lockVars   == <<lockReqs, lockTail>>
attVars    == <<scanMode, attDisk, fin>>
secretVars == <<sealed, secretOp>>
restVars   == <<fileOp, lockVars, attVars, ops, secretVars, json, upserts, users>>
restButFileOp == <<lockVars, attVars, ops, secretVars, json, upserts, users>>
restButLocks  == <<fileOp, attVars, ops, secretVars, json, upserts, users>>
restButAtt    == <<fileOp, lockVars, ops, secretVars, json, upserts, users>>
\* what the calls under a lock leave alone
restButOps    == <<fileOp, scanMode, fin, secretVars, json, upserts, users>>
vars == <<env, contentKey, clock, backupStatus, backupPromise, runs, files, lastResult,
          pages, indexFile, buildStatus, buildPromise, rebuilds, callers, restVars>>

----------------------------------------------------------------------------
(* Bounds of the model *)

MaxClock == 1
MaxRuns == 2
MaxFiles == 2
MaxBytes == 2
MaxCallers == 1
MaxRequests == 3

----------------------------------------------------------------------------
(* Values *)

\* new Date().toISOString() where the program only stores the value: the
\* instant itself is never read back, so one token stands for it.  (The
\* file name's timestamp, which the program does use, comes from the clock.)
Now == "<ISO timestamp>"

None == << >>
Some(x) == <<x>>

Min(a, b) == IF a <= b THEN a ELSE b
Max(a, b) == IF a >= b THEN a ELSE b

\* String.prototype.trim on a token string.
RECURSIVE TrimLeft(_)
TrimLeft(s) == IF s # << >> /\ Head(s) = " " THEN TrimLeft(Tail(s)) ELSE s

RECURSIVE TrimRight(_)
TrimRight(s) ==
    IF s # << >> /\ s[Len(s)] = " " THEN TrimRight(SubSeq(s, 1, Len(s) - 1)) ELSE s

Trim(s) == TrimRight(TrimLeft(s))

\* Math.round of the non-negative rational num/den (den > 0): floor(x + 1/2).
MathRound(num, den) == (2 * num + den) \div (2 * den)

toSafePercent(num, den) == Max(0, Min(100, MathRound(num, den)))

defaultStatus ==
    [ running          |-> FALSE,
      phase            |-> "idle",
      message          |-> "Bereit",
      startedAt        |-> None,
      finishedAt       |-> None,
      percent          |-> 0,
      processedFiles   |-> 0,
      totalFiles       |-> 0,
      archiveFileName  |-> None,
      archiveSizeBytes |-> None,
      error            |-> None ]

\* updateStatus(patch): the patch's fields over the current status; a patched
\* percent (given as the rational <<num, den>>) goes through toSafePercent.
updateStatus(status, patch) ==
    [ f \in DOMAIN status |->
        IF f \in DOMAIN patch
        THEN IF f = "percent" THEN toSafePercent(patch[f][1], patch[f][2]) ELSE patch[f]
        ELSE status[f] ]

getBackupStatus == backupStatus

----------------------------------------------------------------------------
(* The backup directory *)

outputFileName(ts) == <<"flatwiki-backup-", ToString(ts), ".tar.gz.enc">>
tmpArchivePath(name) == <<".tmp-">> \o name \o <<".tar.gz">>
tmpCipherPath(name) == name \o <<".cipherpart">>
tmpOutputPath(name) == name \o <<".tmp">>
checksumPath(name) == name \o <<".sha256">>

Exists(fs, p) == p \in DOMAIN fs
WriteFile(fs, p, c) == [q \in DOMAIN fs \cup {p} |-> IF q = p THEN c ELSE fs[q]]
Unlink(fs, p) == [q \in DOMAIN fs \ {p} |-> fs[q]]
Rename(fs, from, to) == Unlink(WriteFile(fs, to, fs[from]), from)

\* Variant: the file is left in place.
removeFileKeeps(fs, p) == fs

\* fileStore removeFile: unlink, every error (such as ENOENT) swallowed.
removeFile(fs, p) == IF Exists(fs, p) THEN Unlink(fs, p) ELSE fs

\* File contents, as token strings.
ArchiveBytes == <<"tar.gz">>
Encrypt(plain) == <<"aes-256-gcm">> \o plain
BackupHeader(createdAt) == <<"FLATWIKI_BACKUP_V1", createdAt>>
Sha256(content) == <<"sha256">> \o content
ChecksumLine(digest, name) == digest \o <<"  ">> \o name \o <<"\n">>

----------------------------------------------------------------------------
(* Errors (error.message) *)

ErrPassphraseMissing == <<"BACKUP_ENCRYPTION_KEY fehlt. Backup kann nicht gestartet werden.">>
ErrPassphraseIsContentKey ==
    <<"BACKUP_ENCRYPTION_KEY darf nicht identisch mit CONTENT_ENCRYPTION_KEY sein.">>
ErrIo == <<"EIO: i/o error">>
ErrSpawn == <<"spawn tar ENOENT">>
ErrKdf == <<"Invalid scrypt params: memory limit exceeded">>

\* What tar may have written to stderr when it closes.
TarStderr == { << >>, <<" ">>, <<" ", "tar: data: Cannot open", " ">> }
\* tar's exit code; -1 stands for code === null (killed by a signal), line 418.
TarExitCodes == {0, 2, -1}

\* Variant: the trimmed stderr text alone, without the exit-code fallback.
tarErrorMessageNoFallback(stderr, code) == Trim(stderr)

\* runTarArchive line 418: stderrBuffer.trim() || `tar beendet mit Exit-Code ${code ?? -1}`
tarErrorMessage(stderr, code) ==
    IF Trim(stderr) # << >> THEN Trim(stderr)
    ELSE <<"tar beendet mit Exit-Code ", ToString(code)>>

----------------------------------------------------------------------------
(* Status patches *)

\* startBackupJob lines 607-614
startedStatus(now) ==
    [ defaultStatus EXCEPT
        !.running = TRUE,
        !.phase = "preparing",
        !.message = "Backup wird gestartet...",
        !.startedAt = Some(now),
        !.percent = 3 ]

\* runBackup lines 556-563
preparingPatch(totalFiles, name) ==
    [ phase |-> "preparing", message |-> "Backup wird vorbereitet...",
      percent |-> <<10, 1>>, totalFiles |-> totalFiles, processedFiles |-> 0,
      archiveFileName |-> Some(name) ]

\* runTarArchive line 387 and 392: Math.min(percentBase, 65) as a rational
packingPercent(processed, totalFiles) ==
    IF totalFiles > 0 /\ processed < totalFiles
    THEN <<10 * totalFiles + 55 * processed, totalFiles>>
    ELSE <<65, 1>>

\* runTarArchive lines 388-393
packingPatch(processed, totalFiles) ==
    [ phase |-> "packing",
      message |-> IF totalFiles > 0 THEN "Dateien werden gepackt (n/m)..."
                  ELSE "Dateien werden gepackt...",
      processedFiles |-> Min(processed, totalFiles),
      percent |-> packingPercent(processed, totalFiles) ]

\* Variant: the close handler reports the phase of the step before.
packedPatchAsPreparing(totalFiles) ==
    [ phase |-> "preparing", message |-> "Packen abgeschlossen.",
      processedFiles |-> totalFiles, percent |-> <<65, 1>> ]

\* runTarArchive lines 408-413
packedPatch(totalFiles) ==
    [ phase |-> "packing", message |-> "Packen abgeschlossen.",
      processedFiles |-> totalFiles, percent |-> <<65, 1>> ]

\* Variant: the share of the step alone, without the base of its range.
rangePercentNoBase(base, span, done, total) == <<span * Min(done, total), total>>

\* base + Math.min(done / total, 1) * span, as a rational (total >= 1)
rangePercent(base, span, done, total) == <<base * total + span * Min(done, total), total>>

\* buildEncryptedBackup lines 448-453
encryptingPatch(done, total) ==
    [ phase |-> "encrypting", message |-> "Backup wird verschluesselt...",
      percent |-> rangePercent(65, 25, done, total) ]

\* buildEncryptedBackup lines 493-498
writingPatch(done, total) ==
    [ phase |-> "writing", message |-> "Backup-Datei wird geschrieben...",
      percent |-> rangePercent(90, 8, done, total) ]

\* Variant: the done update leaves the running flag alone.
donePatchStillRunning(now, name, sizeBytes) ==
    [ phase |-> "done", message |-> "Backup erfolgreich erstellt.",
      percent |-> <<100, 1>>, finishedAt |-> Some(now),
      archiveFileName |-> Some(name), archiveSizeBytes |-> Some(sizeBytes) ]

\* runBackup lines 574-582
donePatch(now, name, sizeBytes) ==
    [ running |-> FALSE, phase |-> "done", message |-> "Backup erfolgreich erstellt.",
      percent |-> <<100, 1>>, finishedAt |-> Some(now),
      archiveFileName |-> Some(name), archiveSizeBytes |-> Some(sizeBytes) ]

\* Variant: the failure is recorded without ending the job.
errorPatchKeepsPhase(now, message) ==
    [ message |-> "Backup fehlgeschlagen.", error |-> Some(message) ]

\* startBackupJob lines 618-625 (every thrown value here is an Error)
errorPatch(now, message) ==
    [ running |-> FALSE, phase |-> "error", message |-> "Backup fehlgeschlagen.",
      finishedAt |-> Some(now), percent |-> <<100, 1>>, error |-> Some(message) ]

----------------------------------------------------------------------------
(* The runBackup executions *)

Runs == 1..MaxRuns

IdleRun ==
    [ pc |-> "idle", passphrase |-> << >>, name |-> << >>, totalFiles |-> 0,
      processed |-> 0, size |-> 0, doneBytes |-> 0, createdAt |-> "",
      digest |-> << >>, err |-> None ]

InProgress(j) == runs[j].pc \notin {"idle"}

TypeOK ==
    /\ clock \in 0..MaxClock
    /\ backupStatus.percent \in Int
    /\ \A j \in Runs : runs[j].pc \in
         { "idle", "ensureDir", "listDataFiles", "tar", "statArchive", "encrypting",
           "writeHeader", "statCipher", "writing", "rename", "hash", "writeChecksum",
           "buildFinally", "buildFinally2", "statOutput", "runFinally",
           "rejected", "resolved", "caught" }

\* A run's position and locals after a step.
Goto(j, pc, changes) ==
    [ runs EXCEPT ![j] =
        [ f \in DOMAIN @ |-> IF f = "pc" THEN pc
                             ELSE IF f \in DOMAIN changes THEN changes[f] ELSE @[f] ] ]

\* A step that threw: the error travels to the given handler position (the
\* locals of the frames it leaves are gone).
Throw(j, pc, message) ==
    [ runs EXCEPT ![j] = [IdleRun EXCEPT !.pc = pc, !.name = runs[j].name,
                                         !.err = Some(message)] ]

----------------------------------------------------------------------------
(* startBackupJob *)

ReasonRunning == "Ein Backup laeuft bereits."
ReasonNoKey == "BACKUP_ENCRYPTION_KEY ist nicht gesetzt."

\* Variant: no single-flight guard.
AlreadyRunningUnchecked == FALSE

\* line 591: if (backupPromise)
AlreadyRunning == backupPromise # None

\* line 599: (process.env.BACKUP_ENCRYPTION_KEY ?? "").trim() is non-empty
PassphraseConfigured == Trim(env) # << >>

\* Variant: the passphrase is not compared with the content key.
runBackupEntryNoKeyCheck ==
    LET backupPassphrase == Trim(env) IN
    IF backupPassphrase = << >>
    THEN [IdleRun EXCEPT !.pc = "rejected", !.err = Some(ErrPassphraseMissing)]
    ELSE [IdleRun EXCEPT !.pc = "ensureDir", !.passphrase = backupPassphrase]

\* runBackup up to its first await (lines 534-546), run synchronously by the call
\* at line 616: a throw there is a rejected promise, handled later by .catch.
runBackupEntry ==
    LET backupPassphrase == Trim(env) IN
    IF backupPassphrase = << >>
    THEN [IdleRun EXCEPT !.pc = "rejected", !.err = Some(ErrPassphraseMissing)]
    ELSE IF contentKey # None /\ backupPassphrase = contentKey[1]
    THEN [IdleRun EXCEPT !.pc = "rejected", !.passphrase = backupPassphrase,
                         !.err = Some(ErrPassphraseIsContentKey)]
    ELSE [IdleRun EXCEPT !.pc = "ensureDir", !.passphrase = backupPassphrase]

\* Variant: the rejected call resets the reported status.
RejectedResetsStatus(reason) ==
    /\ lastResult' = Some([started |-> FALSE, reason |-> Some(reason), status |-> getBackupStatus])
    /\ backupStatus' = defaultStatus
    /\ UNCHANGED <<backupPromise, runs>>

\* lines 592-596 and 600-604: the result of a call that starts nothing
Rejected(reason) ==
    /\ lastResult' = Some([started |-> FALSE, reason |-> Some(reason), status |-> getBackupStatus])
    /\ UNCHANGED <<backupStatus, backupPromise, runs>>

StartBackupJob ==
    /\ IF AlreadyRunning THEN Rejected(ReasonRunning)
       ELSE IF ~PassphraseConfigured THEN Rejected(ReasonNoKey)
       ELSE \E j \in Runs :
              /\ ~InProgress(j)
              /\ \A i \in Runs : i < j => InProgress(i)
              /\ backupStatus' = startedStatus(Now)
              /\ runs' = [runs EXCEPT ![j] = runBackupEntry]
              /\ backupPromise' = Some(j)
              /\ lastResult' = Some([started |-> TRUE, reason |-> None,
                                     status |-> backupStatus'])
    /\ UNCHANGED <<env, contentKey, clock, files>>
    /\ UNCHANGED <<indexVars, restVars>>

\* .catch (lines 617-626): a microtask after the run's promise was rejected
CatchError(j) ==
    /\ runs[j].pc = "rejected"
    /\ backupStatus' = updateStatus(backupStatus, errorPatch(Now, runs[j].err[1]))
    /\ runs' = Goto(j, "caught", << >>)
    /\ lastResult' = None
    /\ UNCHANGED <<env, contentKey, clock, backupPromise, files>>
    /\ UNCHANGED <<indexVars, restVars>>

\* Variant: the handle is never cleared.
SettledHandleKept == backupPromise

\* line 628: the value .finally stores in backupPromise
SettledHandle == None

\* .finally (lines 627-629)
ClearPromise(j) ==
    /\ runs[j].pc \in {"resolved", "caught"}
    /\ backupPromise' = SettledHandle
    /\ runs' = [runs EXCEPT ![j] = IdleRun]
    /\ lastResult' = None
    /\ UNCHANGED <<env, contentKey, clock, backupStatus, files>>
    /\ UNCHANGED <<indexVars, restVars>>

----------------------------------------------------------------------------
(* runBackup *)

\* A step of run j that touches neither the status nor the directory.
Local(j) ==
    /\ lastResult' = None
    /\ UNCHANGED <<env, contentKey, backupPromise>>
    /\ UNCHANGED <<indexVars, restVars>>

\* line 546 await ensureDir(config.backupDir); then lines 548-553.  Line 548
\* reads the clock: time has not gone back since the last reading.
EnsureBackupDir(j) ==
    /\ runs[j].pc = "ensureDir"
    /\ \/ \E now \in clock..MaxClock :
            /\ clock' = now
            /\ runs' = Goto(j, "listDataFiles", [name |-> outputFileName(now)])
       \/ /\ runs' = Throw(j, "rejected", ErrIo)
          /\ UNCHANGED clock
    /\ UNCHANGED <<backupStatus, files>>
    /\ Local(j)

\* line 553 await listDataFiles (it never throws); lines 554-563; then
\* runTarArchive spawns tar (line 370)
ListDataFiles(j) ==
    /\ runs[j].pc = "listDataFiles"
    /\ \E totalFiles \in 0..MaxFiles :
         /\ runs' = Goto(j, "tar", [totalFiles |-> totalFiles])
         /\ backupStatus' = updateStatus(backupStatus, preparingPatch(totalFiles, runs[j].name))
    /\ UNCHANGED files
    /\ UNCHANGED clock
    /\ Local(j)

\* tar's verbose output: one line per archived entry (directories too, so that
\* more lines than totalFiles can arrive); handleStdoutChunk lines 383-394
MaxLines == MaxFiles + 1

TarStdoutLine(j) ==
    /\ runs[j].pc = "tar"
    /\ runs[j].processed < MaxLines
    /\ runs' = Goto(j, "tar", [processed |-> runs[j].processed + 1])
    /\ backupStatus' =
         updateStatus(backupStatus, packingPatch(runs[j].processed + 1, runs[j].totalFiles))
    /\ files' = WriteFile(files, tmpArchivePath(runs[j].name), ArchiveBytes)
    /\ UNCHANGED clock
    /\ Local(j)

\* tar.on("error") lines 402-404: the process could not be spawned
TarSpawnError(j) ==
    /\ runs[j].pc = "tar"
    /\ runs[j].processed = 0
    /\ runs' = Throw(j, "runFinally", ErrSpawn)
    /\ UNCHANGED <<backupStatus, files>>
    /\ UNCHANGED clock
    /\ Local(j)

\* tar.on("close") lines 406-419; on success buildEncryptedBackup starts and
\* awaits fs.stat(tmpArchivePath) (line 428)
TarClose(j) ==
    /\ runs[j].pc = "tar"
    /\ \E code \in TarExitCodes, stderr \in TarStderr :
         IF code = 0
         THEN /\ backupStatus' = updateStatus(backupStatus, packedPatch(runs[j].totalFiles))
              /\ files' = WriteFile(files, tmpArchivePath(runs[j].name), ArchiveBytes)
              /\ runs' = Goto(j, "statArchive", [processed |-> 0])
         ELSE /\ runs' = Throw(j, "runFinally", tarErrorMessage(stderr, code))
              /\ UNCHANGED <<backupStatus, files>>
    /\ UNCHANGED clock
    /\ Local(j)

----------------------------------------------------------------------------
(* buildEncryptedBackup *)

\* Math.max(stats.size, 1), lines 429 and 488
totalBytes(size) == Max(size, 1)

\* line 428 await fs.stat; lines 431-440 (randomBytes, scryptSync, createCipheriv,
\* all before the try); lines 444-456 start the pipeline
StatArchive(j) ==
    /\ runs[j].pc = "statArchive"
    /\ \/ \E size \in 0..MaxBytes :
            runs' = Goto(j, "encrypting", [size |-> size, doneBytes |-> 0])
       \/ runs' = Throw(j, "runFinally", ErrIo)
       \/ runs' = Throw(j, "runFinally", ErrKdf)
    /\ UNCHANGED <<backupStatus, files>>
    /\ UNCHANGED clock
    /\ Local(j)

\* source.on("data") lines 446-454; the cipher text goes to tmpCipherPath
EncryptChunk(j) ==
    /\ runs[j].pc = "encrypting"
    /\ \E n \in 1..(runs[j].size - runs[j].doneBytes) :
         /\ runs' = Goto(j, "encrypting", [doneBytes |-> runs[j].doneBytes + n])
         /\ backupStatus' =
              updateStatus(backupStatus,
                           encryptingPatch(runs[j].doneBytes + n, totalBytes(runs[j].size)))
    /\ files' = WriteFile(files, tmpCipherPath(runs[j].name), <<"partial">>)
    /\ UNCHANGED clock
    /\ Local(j)

\* line 456 await pipeline(...): it ends, or it rejects (a stream error, or
\* EEXIST from the "wx" flag) with the cipher file created or not
EncryptEnd(j) ==
    /\ runs[j].pc = "encrypting"
    /\ \/ /\ runs[j].doneBytes = runs[j].size
          /\ Exists(files, tmpArchivePath(runs[j].name))
          /\ files' = WriteFile(files, tmpCipherPath(runs[j].name),
                                Encrypt(files[tmpArchivePath(runs[j].name)]))
          \* lines 457-479: the tag, the metadata, the header write is issued
          /\ runs' = Goto(j, "writeHeader", [createdAt |-> Now, doneBytes |-> 0])
       \/ /\ runs' = Throw(j, "buildFinally", ErrIo)
          /\ \/ UNCHANGED files
             \/ files' = WriteFile(files, tmpCipherPath(runs[j].name), <<"partial">>)
    /\ UNCHANGED backupStatus
    /\ UNCHANGED clock
    /\ Local(j)

\* lines 476-485: destination opened with "wx", the header written, then
\* fs.stat(tmpCipherPath) is issued
WriteHeader(j) ==
    /\ runs[j].pc = "writeHeader"
    /\ \/ /\ ~Exists(files, tmpOutputPath(runs[j].name))
          /\ files' = WriteFile(files, tmpOutputPath(runs[j].name),
                                BackupHeader(runs[j].createdAt))
          /\ runs' = Goto(j, "statCipher", << >>)
       \/ /\ runs' = Throw(j, "buildFinally", ErrIo)
          /\ \/ UNCHANGED files
             \/ files' = WriteFile(files, tmpOutputPath(runs[j].name), <<"partial">>)
    /\ UNCHANGED backupStatus
    /\ UNCHANGED clock
    /\ Local(j)

\* lines 486-490 and 505: the cipher file's size, then the copy starts
StatCipher(j) ==
    /\ runs[j].pc = "statCipher"
    /\ \/ runs' = Goto(j, "writing", [doneBytes |-> 0])
       \/ runs' = Throw(j, "buildFinally", ErrIo)
    /\ UNCHANGED <<backupStatus, files>>
    /\ UNCHANGED clock
    /\ Local(j)

\* encryptedSource.on("data") lines 491-499
CopyChunk(j) ==
    /\ runs[j].pc = "writing"
    /\ \E n \in 1..(runs[j].size - runs[j].doneBytes) :
         /\ runs' = Goto(j, "writing", [doneBytes |-> runs[j].doneBytes + n])
         /\ backupStatus' =
              updateStatus(backupStatus,
                           writingPatch(runs[j].doneBytes + n, totalBytes(runs[j].size)))
    /\ UNCHANGED files
    /\ UNCHANGED clock
    /\ Local(j)

\* lines 501-504 and 510: "end" ends the destination, "finish" resolves and
\* fs.rename is issued (line 513); or either stream fails
CopyEnd(j) ==
    /\ runs[j].pc = "writing"
    /\ \/ /\ runs[j].doneBytes = runs[j].size
          /\ files' = WriteFile(files, tmpOutputPath(runs[j].name),
                                BackupHeader(runs[j].createdAt)
                                  \o files[tmpCipherPath(runs[j].name)])
          /\ runs' = Goto(j, "rename", << >>)
       \/ /\ runs' = Throw(j, "buildFinally", ErrIo)
          /\ UNCHANGED files
    /\ UNCHANGED backupStatus
    /\ UNCHANGED clock
    /\ Local(j)

\* line 513 await fs.rename(tmpOutputPath, targetFilePath); then the hash
\* stream over the target is opened (lines 515-523)
RenameOutput(j) ==
    /\ runs[j].pc = "rename"
    /\ \/ /\ files' = Rename(files, tmpOutputPath(runs[j].name), runs[j].name)
          /\ runs' = Goto(j, "hash", [createdAt |-> "", doneBytes |-> 0])
       \/ /\ runs' = Throw(j, "buildFinally", ErrIo)
          /\ UNCHANGED files
    /\ UNCHANGED backupStatus
    /\ UNCHANGED clock
    /\ Local(j)

\* Variant: the checksum is computed over the cipher part.
hashedPathCipherPart(name) == tmpCipherPath(name)

\* line 517: the file the checksum is computed over
hashedPath(name) == name

\* lines 516-525: the digest of what the stream read; line 526 issues the write
HashArtifact(j) ==
    /\ runs[j].pc = "hash"
    /\ \/ /\ Exists(files, hashedPath(runs[j].name))
          /\ runs' = Goto(j, "writeChecksum",
                          [digest |-> Sha256(files[hashedPath(runs[j].name)])])
       \/ runs' = Throw(j, "buildFinally", ErrIo)
    /\ UNCHANGED <<backupStatus, files>>
    /\ UNCHANGED clock
    /\ Local(j)

\* line 526 await fs.writeFile(`${targetFilePath}.sha256`, ...)
WriteChecksum(j) ==
    /\ runs[j].pc = "writeChecksum"
    /\ \/ /\ files' = WriteFile(files, checksumPath(runs[j].name),
                                ChecksumLine(runs[j].digest, runs[j].name))
          /\ runs' = Goto(j, "buildFinally", [digest |-> << >>])
       \/ /\ runs' = Throw(j, "buildFinally", ErrIo)
          /\ \/ UNCHANGED files
             \/ files' = WriteFile(files, checksumPath(runs[j].name), <<"partial">>)
    /\ UNCHANGED backupStatus
    /\ UNCHANGED clock
    /\ Local(j)

\* finally, line 528: await removeFile(tmpCipherPath)
RemoveCipherTemp(j) ==
    /\ runs[j].pc = "buildFinally"
    /\ files' = removeFile(files, tmpCipherPath(runs[j].name))
    /\ runs' = Goto(j, "buildFinally2", << >>)
    /\ UNCHANGED backupStatus
    /\ UNCHANGED clock
    /\ Local(j)

\* finally, line 529: await removeFile(tmpOutputPath); then the error is
\* rethrown, or runBackup goes on to fs.stat(outputFilePath) (line 573)
RemoveOutputTemp(j) ==
    /\ runs[j].pc = "buildFinally2"
    /\ files' = removeFile(files, tmpOutputPath(runs[j].name))
    /\ runs' = Goto(j, IF runs[j].err # None THEN "runFinally" ELSE "statOutput", << >>)
    /\ UNCHANGED backupStatus
    /\ UNCHANGED clock
    /\ Local(j)

\* The artifact's size: the header and the cipher text (as long as the archive).
HeaderBytes == 1
artifactSize(size) == HeaderBytes + size

\* line 573 await fs.stat(outputFilePath); lines 574-582
StatOutput(j) ==
    /\ runs[j].pc = "statOutput"
    /\ \/ /\ Exists(files, runs[j].name)
          /\ backupStatus' =
               updateStatus(backupStatus,
                            donePatch(Now, runs[j].name, artifactSize(runs[j].size)))
          /\ runs' = Goto(j, "runFinally", [size |-> 0])
       \/ /\ runs' = Throw(j, "runFinally", ErrIo)
          /\ UNCHANGED backupStatus
    /\ UNCHANGED files
    /\ UNCHANGED clock
    /\ Local(j)

\* runBackup's finally, line 584: await removeFile(tmpArchivePath); then the
\* promise of runBackup settles
RemoveArchiveTemp(j) ==
    /\ runs[j].pc = "runFinally"
    /\ files' = removeFile(files, tmpArchivePath(runs[j].name))
    /\ runs' = Goto(j, IF runs[j].err # None THEN "rejected" ELSE "resolved", << >>)
    /\ UNCHANGED backupStatus
    /\ UNCHANGED clock
    /\ Local(j)

----------------------------------------------------------------------------
(* The search index: pages, the index file, the rebuild *)

Slugs == {"a", "b"}
\* A page's summary metadata (what buildEntrySignature compares), as a token.
Metas == {"t1"}
\* The order in which listPages returns the pages it finds.
SlugOrder == <<"a", "b">>

INDEX_VERSION == 2

NoPages == [s \in {} |-> "t1"]
emptyIndexFile == [version |-> INDEX_VERSION, pages |-> NoPages]

\* readSearchIndexFile: readJsonFile falls back to emptyIndexFile()
readSearchIndexFile == IF indexFile = None THEN emptyIndexFile ELSE indexFile[1]

\* The slugs of a page list, in listPages' order.
RECURSIVE InOrder(_, _)
InOrder(order, present) ==
    IF order = << >> THEN << >>
    ELSE IF Head(order) \in present THEN <<Head(order)>> \o InOrder(Tail(order), present)
    ELSE InOrder(Tail(order), present)

defaultBuildStatus ==
    [ running |-> FALSE, phase |-> "idle", total |-> 0, processed |-> 0,
      percent |-> 0, error |-> None ]

IdleRebuild == [pc |-> "idle", list |-> NoPages, todo |-> << >>, built |-> NoPages]

Callers == 1..MaxCallers
\* Who runs a rebuild: 0 is the promise chain of startSearchIndexRebuild, c > 0
\* the ensureSearchIndexConsistency call c.
Owners == {0} \cup Callers

IdleCaller == [pc |-> "idle", exists |-> FALSE, list |-> NoPages, result |-> ""]

RebuildActive(o) == rebuilds[o].pc \notin {"idle", "finished"}

\* runSearchIndexRebuild lines 206-212, then createIndexDocument awaits listPages
rebuildEntry == [IdleRebuild EXCEPT !.pc = "listPages"]
scanningStatus == [defaultBuildStatus EXCEPT !.running = TRUE, !.phase = "scanning"]

\* lines 217-222
writingStatus(status) == [status EXCEPT !.phase = "writing", !.percent = 100]

\* createIndexDocument lines 157-166
RebuildListPages(o) ==
    /\ rebuilds[o].pc = "listPages"
    /\ LET order == InOrder(SlugOrder, DOMAIN pages)
           building == [buildStatus EXCEPT !.phase = "building", !.total = Len(order),
                           !.processed = 0,
                           !.percent = IF Len(order) > 0 THEN 0 ELSE 100]
       IN  /\ rebuilds' = [rebuilds EXCEPT ![o] =
                 [@ EXCEPT !.pc = IF order = << >> THEN "write" ELSE "getPage",
                           !.list = pages, !.todo = order]]
           /\ buildStatus' = IF order = << >> THEN writingStatus(building) ELSE building
    /\ UNCHANGED <<pages, indexFile, buildPromise, callers>>
    /\ UNCHANGED <<backupVars, restVars>>

\* createIndexDocument lines 170-193: one page per await getPage
RebuildGetPage(o) ==
    /\ rebuilds[o].pc = "getPage"
    /\ LET r == rebuilds[o]
           slug == Head(r.todo)
           entry == IF slug \in DOMAIN pages THEN pages[slug] ELSE r.list[slug]
           built == [s \in DOMAIN r.built \cup {slug} |->
                        IF s = slug THEN entry ELSE r.built[s]]
           processed == Cardinality(DOMAIN built)
           total == Cardinality(DOMAIN r.list)
           counted == [buildStatus EXCEPT !.processed = processed, !.total = total,
                          !.percent = MathRound(processed * 100, total)]
           last == Tail(r.todo) = << >>
       IN  /\ rebuilds' = [rebuilds EXCEPT ![o] =
                 [@ EXCEPT !.pc = IF last THEN "write" ELSE "getPage",
                           !.todo = Tail(r.todo), !.built = built]]
           /\ buildStatus' = IF last THEN writingStatus(counted) ELSE counted
    /\ UNCHANGED <<pages, indexFile, buildPromise, callers>>
    /\ UNCHANGED <<backupVars, restVars>>

\* lines 224-246: the document is written and the status is done, or the
\* write throws and the catch sets the status to error
RebuildWrite(o) ==
    /\ rebuilds[o].pc = "write"
    /\ LET total == Cardinality(DOMAIN rebuilds[o].built) IN
       \/ /\ indexFile' = Some([version |-> INDEX_VERSION, pages |-> rebuilds[o].built])
          /\ buildStatus' = [buildStatus EXCEPT !.running = FALSE, !.phase = "done",
                                !.processed = total, !.total = total, !.percent = 100]
       \/ /\ UNCHANGED indexFile
          /\ buildStatus' = [buildStatus EXCEPT !.running = FALSE, !.phase = "error",
                                !.error = Some(ErrIo)]
    /\ rebuilds' = [rebuilds EXCEPT ![o] = [IdleRebuild EXCEPT !.pc = "finished"]]
    /\ UNCHANGED <<pages, buildPromise, callers>>
    /\ UNCHANGED <<backupVars, restVars>>

\* startSearchIndexRebuild lines 251-268
StartSearchIndexRebuild ==
    /\ IF buildPromise # None
       THEN UNCHANGED <<buildPromise, buildStatus, rebuilds>>
       ELSE /\ rebuilds[0].pc = "idle"
            /\ buildStatus' = scanningStatus
            /\ rebuilds' = [rebuilds EXCEPT ![0] = rebuildEntry]
            /\ buildPromise' = Some(0)
    /\ UNCHANGED <<pages, indexFile, callers>>
    /\ UNCHANGED <<backupVars, restVars>>

\* .finally lines 260-262; the settled promise resumes every call that awaits
\* it at line 401, and those return rebuild_already_running
FinishStartedRebuild ==
    /\ rebuilds[0].pc = "finished"
    /\ buildPromise' = None
    /\ rebuilds' = [rebuilds EXCEPT ![0] = IdleRebuild]
    /\ callers' = [c \in Callers |->
                     IF callers[c].pc = "awaitBuild"
                     THEN [IdleCaller EXCEPT !.result = "rebuild_already_running"]
                     ELSE callers[c]]
    /\ UNCHANGED <<pages, indexFile, buildStatus>>
    /\ UNCHANGED <<backupVars, restVars>>

\* createIndexDocument throws (listPages or getPage fails): catch, lines 237-246
RebuildFail(o) ==
    /\ rebuilds[o].pc \in {"listPages", "getPage"}
    /\ buildStatus' = [buildStatus EXCEPT !.running = FALSE, !.phase = "error",
                          !.error = Some(ErrIo)]
    /\ rebuilds' = [rebuilds EXCEPT ![o] = [IdleRebuild EXCEPT !.pc = "finished"]]
    /\ UNCHANGED <<pages, indexFile, buildPromise, callers>>
    /\ UNCHANGED <<backupVars, restVars>>

----------------------------------------------------------------------------
(* ensureSearchIndexConsistency *)

\* lines 412-433
RECURSIVE firstDifference(_, _, _)
firstDifference(order, indexed, list) ==
    IF order = << >> THEN ""
    ELSE IF Head(order) \notin DOMAIN indexed THEN "missing_page"
    ELSE IF indexed[Head(order)] # list[Head(order)] THEN "changed_page_metadata"
    ELSE firstDifference(Tail(order), indexed, list)

consistencyReason(exists, indexDocument, list) ==
    IF ~exists THEN "index_missing"
    ELSE IF indexDocument.version # INDEX_VERSION THEN "version_mismatch"
    ELSE IF Cardinality(DOMAIN indexDocument.pages) # Cardinality(DOMAIN list)
    THEN "page_count_mismatch"
    ELSE firstDifference(InOrder(SlugOrder, DOMAIN list), indexDocument.pages, list)

\* lines 400-408: wait for the rebuild in flight, or go on to the check
EnsureCall(c) ==
    /\ callers[c].pc = "idle"
    /\ callers' = [callers EXCEPT ![c] =
         [IdleCaller EXCEPT !.pc = IF buildPromise # None THEN "awaitBuild"
                                   ELSE "checkExists"]]
    /\ UNCHANGED <<pages, indexFile, buildStatus, buildPromise, rebuilds>>
    /\ UNCHANGED <<backupVars, restVars>>

\* line 408 await checkSearchIndexExists()
EnsureCheckExists(c) ==
    /\ callers[c].pc = "checkExists"
    /\ callers' = [callers EXCEPT ![c] =
         [@ EXCEPT !.pc = "listPages", !.exists = (indexFile # None)]]
    /\ UNCHANGED <<pages, indexFile, buildStatus, buildPromise, rebuilds>>
    /\ UNCHANGED <<backupVars, restVars>>

\* The decision of lines 412-442 once the index document is at hand: return
\* up_to_date, or call runSearchIndexRebuild() directly
EnsureDecide(c, list, indexDocument) ==
    LET reason == consistencyReason(callers[c].exists, indexDocument, list) IN
    IF reason = ""
    THEN /\ callers' = [callers EXCEPT ![c] = [IdleCaller EXCEPT !.result = "up_to_date"]]
         /\ UNCHANGED <<buildStatus, rebuilds>>
    ELSE /\ callers' = [callers EXCEPT ![c] =
              [@ EXCEPT !.pc = "rebuilding", !.list = NoPages, !.result = reason]]
         /\ buildStatus' = scanningStatus
         /\ rebuilds' = [rebuilds EXCEPT ![c] = rebuildEntry]

\* line 409 await listPages; line 410 reads the index only if it exists
EnsureListPages(c) ==
    /\ callers[c].pc = "listPages"
    /\ IF callers[c].exists
       THEN /\ callers' = [callers EXCEPT ![c] = [@ EXCEPT !.pc = "readIndex", !.list = pages]]
            /\ UNCHANGED <<buildStatus, rebuilds>>
       ELSE EnsureDecide(c, pages, emptyIndexFile)
    /\ UNCHANGED <<pages, indexFile, buildPromise>>
    /\ UNCHANGED <<backupVars, restVars>>

\* line 410 await readSearchIndexFile()
EnsureReadIndex(c) ==
    /\ callers[c].pc = "readIndex"
    /\ EnsureDecide(c, callers[c].list, readSearchIndexFile)
    /\ UNCHANGED <<pages, indexFile, buildPromise>>
    /\ UNCHANGED <<backupVars, restVars>>

\* lines 442-446: the awaited rebuild is over, the call returns rebuilt: true
EnsureReturn(c) ==
    /\ callers[c].pc = "rebuilding"
    /\ rebuilds[c].pc = "finished"
    /\ rebuilds' = [rebuilds EXCEPT ![c] = IdleRebuild]
    /\ callers' = [callers EXCEPT ![c] = [@ EXCEPT !.pc = "idle"]]
    /\ UNCHANGED <<pages, indexFile, buildStatus, buildPromise>>
    /\ UNCHANGED <<backupVars, restVars>>

\* The wiki store saves or deletes a page.
EditPage ==
    /\ \E s \in Slugs :
         \/ \E m \in Metas :
              pages' = [t \in DOMAIN pages \cup {s} |-> IF t = s THEN m ELSE pages[t]]
         \/ /\ s \in DOMAIN pages
            /\ pages' = [t \in DOMAIN pages \ {s} |-> pages[t]]
    /\ UNCHANGED <<indexFile, buildStatus, buildPromise, rebuilds, callers>>
    /\ UNCHANGED <<backupVars, restVars>>


----------------------------------------------------------------------------
(* Backup files: resolveBackupFilePath and deleteBackupFile *)

\* A file name input is a string of tokens: " " is white space, "/" the path
\* separator, every other token a run of characters without either.
Sep == "/"

\* path.basename (POSIX): trailing separators dropped, then what follows the
\* last separator.
RECURSIVE StripTrailingSep(_)
StripTrailingSep(s) ==
    IF s # << >> /\ s[Len(s)] = Sep THEN StripTrailingSep(SubSeq(s, 1, Len(s) - 1)) ELSE s

RECURSIVE AfterLastSep(_)
AfterLastSep(s) ==
    IF s = << >> \/ s[Len(s)] = Sep THEN << >>
    ELSE AfterLastSep(SubSeq(s, 1, Len(s) - 1)) \o <<s[Len(s)]>>

pathBasename(s) == AfterLastSep(StripTrailingSep(s))

\* The tokens that stand for a timestamp [0-9]{8}-[0-9]{6}.
TimestampTokens == {ToString(t) : t \in 0..MaxClock}

\* Variant: the pattern is not anchored at its end.
testPrefixOnly(fileName) ==
    /\ Len(fileName) >= 3
    /\ fileName[1] = "flatwiki-backup-"
    /\ fileName[2] \in TimestampTokens
    /\ fileName[3] = ".tar.gz.enc"

\* SAFE_BACKUP_FILE_PATTERN.test(fileName), line 291
testSafeBackupFilePattern(fileName) ==
    /\ Len(fileName) = 3
    /\ fileName[1] = "flatwiki-backup-"
    /\ fileName[2] \in TimestampTokens
    /\ fileName[3] = ".tar.gz.enc"

\* What fs.stat reports for a directory entry that is a directory.
DirectoryEntry == <<"<directory>">>
IsFile(fs, p) == Exists(fs, p) /\ fs[p] # DirectoryEntry

\* The inputs tried: artifact names bare, padded, behind a directory part, with
\* a trailing separator or a suffix, traversal attempts, and other names.
FileNameInputs ==
    LET Names == {outputFileName(t) : t \in 0..MaxClock} IN
    Names
    \cup {<<" ">> \o n \o <<" ">> : n \in Names}
    \cup {<<"..", Sep>> \o n : n \in Names}
    \cup {n \o <<Sep>> : n \in Names}
    \cup {n \o <<Sep, "..", Sep, "x">> : n \in Names}
    \cup {checksumPath(n) : n \in Names}
    \cup {tmpArchivePath(n) : n \in Names}
    \cup { << >>, <<"..">>, <<"x">>,
           <<"..", Sep, "..", Sep, "etc", Sep, "passwd">>,
           <<"flatwiki-backup-", "x", ".tar.gz.enc">>,
           <<"flatwiki-backup-", ".tar.gz.enc">> }

IdleFileOp == [op |-> "none", pc |-> "idle", input |-> << >>, fullPath |-> None,
               result |-> None]

\* resolveBackupFilePath lines 682-685, up to the await of fs.stat
resolveEntry(op, fileNameInput) ==
    LET fileName == pathBasename(Trim(fileNameInput)) IN
    IF ~testSafeBackupFilePattern(fileName)
    THEN [op |-> op, pc |-> "resolved", input |-> fileNameInput, fullPath |-> None,
          result |-> None]
    ELSE [op |-> op, pc |-> "stat", input |-> fileNameInput, fullPath |-> Some(fileName),
          result |-> None]

\* A call of resolveBackupFilePath or deleteBackupFile (line 696).
FileOpCall ==
    /\ fileOp.pc \in {"idle", "returned"}
    /\ \E op \in {"resolve", "delete"}, fileNameInput \in FileNameInputs :
         fileOp' = resolveEntry(op, fileNameInput)
    /\ UNCHANGED <<backupVars, indexVars, restButFileOp>>

\* lines 686-692: the path if fs.stat finds a regular file, null otherwise
ResolveStat ==
    /\ fileOp.pc = "stat"
    /\ fileOp' = [fileOp EXCEPT
                    !.pc = "resolved",
                    !.fullPath = IF IsFile(files, fileOp.fullPath[1]) THEN @ ELSE None]
    /\ UNCHANGED <<backupVars, indexVars, restButFileOp>>

\* resolveBackupFilePath returns; deleteBackupFile line 697
ResolveReturn ==
    /\ fileOp.pc = "resolved"
    /\ fileOp' =
         IF fileOp.op = "resolve"
         THEN [fileOp EXCEPT !.pc = "returned",
                 !.result = IF fileOp.fullPath = None THEN Some("null") ELSE Some("path")]
         ELSE IF fileOp.fullPath = None
         THEN [fileOp EXCEPT !.pc = "returned", !.result = Some("false")]
         ELSE [fileOp EXCEPT !.pc = "removeFile"]
    /\ UNCHANGED <<backupVars, indexVars, restButFileOp>>

\* line 699
DeleteArtifact ==
    /\ fileOp.pc = "removeFile"
    /\ files' = removeFile(files, fileOp.fullPath[1])
    /\ fileOp' = [fileOp EXCEPT !.pc = "removeChecksum"]
    /\ UNCHANGED <<env, contentKey, clock, backupStatus, backupPromise, runs, lastResult>>
    /\ UNCHANGED <<indexVars, restButFileOp>>

\* lines 700-701
DeleteChecksum ==
    /\ fileOp.pc = "removeChecksum"
    /\ files' = removeFile(files, checksumPath(fileOp.fullPath[1]))
    /\ fileOp' = [fileOp EXCEPT !.pc = "returned", !.result = Some("true")]
    /\ UNCHANGED <<env, contentKey, clock, backupStatus, backupPromise, runs, lastResult>>
    /\ UNCHANGED <<indexVars, restButFileOp>>


----------------------------------------------------------------------------
(* Locks: withWriteLock (fileStore) and withMutationLock (the stores) *)

\* One key stands for a store's mutationQueue, served by withMutationLock; the
\* other keys are file paths, served by withWriteLock.
MutationQueue == "mutationQueue"
FilePaths == {"a.json", "b.json"}
LockKeys == {MutationQueue} \cup FilePaths

\* Requests are numbered in the order in which the calls are made.
Requests == 1..MaxRequests

\* current / waitFor: None is an already resolved promise (Promise.resolve()),
\* Some(q) the promise request q installed.
IdleRequest == [pc |-> "idle", key |-> "", current |-> None, released |-> FALSE,
                result |-> ""]

\* The promise request q installed: withMutationLock installs `next` itself
\* (line 94), resolved by release(); withWriteLock installs
\* current.then(() => next) (line 202), which also waits for `current`.
RECURSIVE PromiseSettled(_)
PromiseSettled(p) ==
    \/ p = None
    \/ /\ p # None
       /\ lockReqs[p[1]].released
       /\ lockReqs[p[1]].key = MutationQueue \/ PromiseSettled(lockReqs[p[1]].current)

\* Variant: every request starts from a resolved promise.
currentPromiseResolved(key) == None

\* line 195: writeLocks.get(filePath) ?? Promise.resolve(); line 22: mutationQueue
currentPromise(key) == lockTail[key]

\* withWriteLock lines 195-204, withMutationLock lines 92-98: up to the await
LockRequest(r) ==
    /\ lockReqs[r].pc = "idle"
    /\ \A q \in Requests : q < r => lockReqs[q].pc # "idle"
    /\ \E key \in LockKeys :
         /\ lockReqs' = [lockReqs EXCEPT ![r] =
                [IdleRequest EXCEPT !.pc = "waiting", !.key = key,
                                    !.current = currentPromise(key)]]
         /\ lockTail' = [lockTail EXCEPT ![key] = Some(r)]
    /\ UNCHANGED <<backupVars, indexVars, restButLocks>>

\* the await is over (line 204 / 98): task() is called
LockTaskStart(r) ==
    /\ lockReqs[r].pc = "waiting"
    /\ PromiseSettled(lockReqs[r].current)
    /\ lockReqs' = [lockReqs EXCEPT ![r].pc = "running"]
    /\ UNCHANGED lockTail
    /\ UNCHANGED <<backupVars, indexVars, restButLocks>>

\* Variant: release() is reached only when the task returned.
releasedAfterReturnOnly(outcome) == outcome = "returned"

\* finally (lines 208-213 / 101-103): release() runs whatever the outcome
releasedAfter(outcome) == TRUE

\* the task's promise settles; finally; the outcome goes to the caller
LockTaskEnd(r) ==
    /\ lockReqs[r].pc = "running"
    /\ \E outcome \in {"returned", "threw"} :
         lockReqs' = [lockReqs EXCEPT ![r] =
                [@ EXCEPT !.pc = "done", !.released = releasedAfter(outcome),
                          !.result = outcome]]
    /\ lockTail' =
         IF lockReqs[r].key # MutationQueue /\ lockTail[lockReqs[r].key] = Some(r)
         THEN [lockTail EXCEPT ![lockReqs[r].key] = None]
         ELSE lockTail
    /\ UNCHANGED <<backupVars, indexVars, restButLocks>>

InitLocks ==
    /\ lockReqs = [r \in Requests |-> IdleRequest]
    /\ lockTail = [key \in LockKeys |-> None]


----------------------------------------------------------------------------
(* Attachments: finalizeAttachmentFromQuarantine *)

\* String.prototype.toLowerCase on the tokens that hold upper-case letters.
LowerToken(t) ==
    CASE t = "PDF" -> "pdf"
      [] t = "Docx" -> "docx"
      [] t = "APPLICATION/PDF" -> "application/pdf"
      [] t = "Page-1" -> "page-1"
      [] t = "B" -> "b"
      [] t = "Root" -> "root"
      [] t = "Alice" -> "alice"
      [] OTHER -> t
LowerCase(s) == [i \in 1..Len(s) |-> LowerToken(s[i])]

\* A token that FILE_NAME_SANITIZE_PATTERN (line 55) turns into "_"; "_" itself
\* is listed so that the runs of "_" collapse.
Unsafe(t) == t \in {" ", "é", "_"}

\* name.replace(PATTERN, "_").replace(/_+/g, "_")
RECURSIVE ReplaceUnsafe(_)
ReplaceUnsafe(s) ==
    IF s = << >> THEN << >>
    ELSE LET rest == ReplaceUnsafe(Tail(s)) IN
         IF ~Unsafe(Head(s)) THEN <<Head(s)>> \o rest
         ELSE IF rest # << >> /\ Head(rest) = "_" THEN rest
         ELSE <<"_">> \o rest

\* .replace(/^_+|_+$/g, "") after the collapse: at most one "_" at each end
StripUnderscores(s) ==
    LET a == IF s # << >> /\ Head(s) = "_" THEN Tail(s) ELSE s IN
    IF a # << >> /\ a[Len(a)] = "_" THEN SubSeq(a, 1, Len(a) - 1) ELSE a

\* cleaned.slice(0, 180), in tokens
NameLimit == 5

\* lines 175-179
sanitizeOriginalFileName(name) ==
    LET cleaned == StripUnderscores(ReplaceUnsafe(pathBasename(Trim(name))))
        sliced == SubSeq(cleaned, 1, Min(Len(cleaned), NameLimit)) IN
    IF sliced = << >> THEN <<"datei">> ELSE sliced

\* path.extname: from the last "." on, unless there is none or it starts the name
RECURSIVE LastDot(_)
LastDot(s) == IF s = << >> THEN 0 ELSE IF s[Len(s)] = "." THEN Len(s)
              ELSE LastDot(SubSeq(s, 1, Len(s) - 1))
pathExtname(s) == IF LastDot(s) <= 1 THEN << >> ELSE SubSeq(s, LastDot(s), Len(s))

\* line 108: path.extname(fileName).replace(/^\./, "").trim().toLowerCase()
normalizeExtension(fileName) ==
    LET ext == pathExtname(fileName) IN
    LowerCase(Trim(IF ext # << >> /\ Head(ext) = "." THEN Tail(ext) ELSE ext))

\* line 106
normalizeSlug(value) == LowerCase(Trim(value))

\* lines 58-87
ALLOWED_EXTENSION_TO_MIME ==
    [ pdf  |-> {"application/pdf", "application/x-pdf", "application/octet-stream"},
      txt  |-> {"text/plain", "application/octet-stream"},
      md   |-> {"text/markdown", "text/plain", "application/octet-stream"},
      csv  |-> {"text/csv", "application/csv", "text/plain", "application/octet-stream"},
      docx |-> {"application/vnd.openxmlformats-officedocument.wordprocessingml.document",
                "application/zip", "application/octet-stream"},
      xlsx |-> {"application/vnd.openxmlformats-officedocument.spreadsheetml.sheet",
                "application/zip", "application/octet-stream"},
      pptx |-> {"application/vnd.openxmlformats-officedocument.presentationml.presentation",
                "application/zip", "application/octet-stream"} ]

\* ALLOWED_EXTENSION_TO_MIME.has(extension): the extension is one token of the table
HasExtension(extension) == Len(extension) = 1 /\ extension[1] \in DOMAIN ALLOWED_EXTENSION_TO_MIME

\* line 394: String(input.mimeType ?? "application/octet-stream").trim().toLowerCase()
\* (an absent mimeType is written as the empty string)
finalizeMimeType(mimeType) == LowerCase(Trim(mimeType))

\* line 227: (mimeType || "application/octet-stream").trim().toLowerCase()
normalizedMime(mimeType) ==
    LowerCase(Trim(IF mimeType = << >> THEN <<"application/octet-stream">> ELSE mimeType))

\* Variant: the extension's table entry is not consulted.
MimeAllowedAnyKnown(extension, mimeType) ==
    /\ Len(normalizedMime(mimeType)) = 1
    /\ \E e \in DOMAIN ALLOWED_EXTENSION_TO_MIME :
         normalizedMime(mimeType)[1] \in ALLOWED_EXTENSION_TO_MIME[e]

\* line 228
MimeAllowed(extension, mimeType) ==
    /\ Len(normalizedMime(mimeType)) = 1
    /\ normalizedMime(mimeType)[1] \in ALLOWED_EXTENSION_TO_MIME[extension[1]]

\* File contents are strings of tokens: a signature is one token, "NUL" a zero
\* byte, every other token some bytes without a zero byte.
MagicWindow == 1
TextWindow == 2
Window(content, n) == SubSeq(content, 1, Min(Len(content), n))

\* Variant: any non-empty file.
looksLikePdfNonEmpty(chunk) == chunk # << >>

\* line 192
looksLikePdf(chunk) == chunk # << >> /\ chunk[1] = "%PDF-"

\* Variant: any two leading bytes "PK".
looksLikeZipAnyPk(chunk) ==
    /\ chunk # << >>
    /\ chunk[1] \in {"PK0304", "PK0506", "PK0708", "PKxx"}

\* lines 194-201
looksLikeZip(chunk) ==
    /\ chunk # << >>
    /\ chunk[1] \in {"PK0304", "PK0506", "PK0708"}

\* lines 206-215, on the sample read
looksLikeText(sample) == \A i \in 1..Len(sample) : sample[i] # "NUL"


\* Variant: exit code 1 treated as any other scanner failure.
runClamAvScanInfectedAsFailure(mode, outcome) ==
    IF mode = "off" THEN [ok |-> TRUE, clean |-> TRUE, skipped |-> TRUE]
    ELSE IF outcome = "exit0" THEN [ok |-> TRUE, clean |-> TRUE, skipped |-> FALSE]
    ELSE IF mode = "required" THEN [ok |-> FALSE, clean |-> FALSE, skipped |-> FALSE]
    ELSE [ok |-> TRUE, clean |-> TRUE, skipped |-> TRUE]

\* lines 277-330; outcome is what commandExists and the spawned scanner did
ScanOutcomes == {"not_found", "spawn_error", "exit0", "exit1", "exit2"}
runClamAvScan(mode, outcome) ==
    IF mode = "off" THEN [ok |-> TRUE, clean |-> TRUE, skipped |-> TRUE]
    ELSE IF outcome = "exit0" THEN [ok |-> TRUE, clean |-> TRUE, skipped |-> FALSE]
    ELSE IF outcome = "exit1" THEN [ok |-> TRUE, clean |-> FALSE, skipped |-> FALSE]
    ELSE IF mode = "required" THEN [ok |-> FALSE, clean |-> FALSE, skipped |-> FALSE]
    ELSE [ok |-> TRUE, clean |-> TRUE, skipped |-> TRUE]

\* config.attachmentsQuarantineDir and config.attachmentsFileDir
QuarantineDir == "quarantine"
AttachmentsFileDir == "attachments"

\* Variant: the trimmed input is used as it is.
resolveQuarantinePathAsGiven(inputPath) ==
    IF Trim(inputPath) = << >> THEN None ELSE Some(Trim(inputPath))

\* lines 356-363 with safeResolve (part_003:175-186): None when it throws
resolveQuarantinePath(inputPath) ==
    LET normalizedName == pathBasename(Trim(inputPath)) IN
    IF normalizedName = << >> THEN None
    ELSE IF normalizedName = <<"..">> THEN None
    ELSE IF normalizedName = <<".">> THEN Some(<<QuarantineDir>>)
    ELSE Some(<<QuarantineDir, Sep>> \o normalizedName)

\* line 346 and 348-354: a fresh name in the attachments directory
Uuids == <<"uuid1", "uuid2", "uuid3", "uuid4", "uuid5", "uuid6">>
IsBlobPath(p) == Len(p) > 2 /\ p[1] = AttachmentsFileDir /\ p[2] = Sep
BlobPaths(fs) == {p \in DOMAIN fs : IsBlobPath(p)}
\* Variant: the name carries no extension.
buildAttachmentStorageNameBare(fs, extension) ==
    <<Uuids[Cardinality(BlobPaths(fs)) + 1]>>

buildAttachmentStorageName(fs, extension) ==
    <<Uuids[Cardinality(BlobPaths(fs)) + 1], ".">> \o extension
resolveAttachmentPath(storageName) == <<AttachmentsFileDir, Sep>> \o storageName

\* what the callers pass to finalizeAttachmentFromQuarantine
PageSlugs == {<<"Page-1">>, <<" ">>}
Uploaders == {<<"u1">>}
OriginalNames ==
    { <<"a", ".", "pdf">>, <<"a", ".", "PDF">>, <<"a", ".", "pdf", "é">>,
      <<".", "pdf">>, <<"a", ".", "exe">>, <<"a", "-", "b", "-", "c", ".", "pdf">>,
      <<"é", "a", " ", "b", ".", "txt", " ">>, <<"a", ".", "md">>,
      <<"a", ".", "Docx">>, <<"x", "/", "a", ".", "xlsx">> }
MimeTypes ==
    { << >>, <<"application/pdf">>, <<" ", "APPLICATION/PDF">>, <<"text/plain">>,
      <<"application/zip">>, <<"application/octet-stream">>, <<"image/png">> }
QuarantinePathInputs ==
    { <<QuarantineDir, Sep, "up1">>, <<"elsewhere", Sep, "up1">>,
      <<"elsewhere", Sep, "other">>, << >>, <<QuarantineDir, Sep, "..">> }
Contents ==
    { << >>, <<"%PDF-", "data">>, <<"data", "%PDF-">>, <<"PK0304", "data">>,
      <<"PK0506">>, <<"PK0708", "data">>, <<"PKxx", "data">>, <<"text", "text">>, <<"text", "NUL">>,
      <<"text", "text", "NUL">> }
ScanModes == {"off", "optional", "required"}

IdleFinalize ==
    [ pc |-> "idle", input |-> << >>, quarantinePath |-> << >>, originalName |-> << >>,
      extension |-> << >>, mimeType |-> << >>, sizeBytes |-> 0, outcome |-> "",
      scan |-> None, finalPath |-> << >>, sha256 |-> << >>, before |-> << >>,
      result |-> "", error |-> "" ]

InitAttachmentsIdle ==
    /\ scanMode = "off"
    /\ attDisk = [files |-> [p \in {} |-> << >>], attachments |-> << >>]
    /\ fin = IdleFinalize

\* an attachment finalized earlier: its blob and its record
StoredBlobPath == resolveAttachmentPath(<<Uuids[1], ".", "pdf">>)
StoredAttachment ==
    [ id |-> "id0", uploadedById |-> <<"u1">>,
      slug |-> <<"page-1">>, storageName |-> <<Uuids[1], ".", "pdf">>,
      originalName |-> <<"old", ".", "pdf">>, mimeType |-> <<"application/pdf">>,
      extension |-> <<"pdf">>, sizeBytes |-> 2, sha256 |-> Sha256(<<"%PDF-", "data">>),
      scanStatus |-> "clean" ]

\* attachments.json before the call: empty, the record above, or that record
\* as a finalize call with an empty declared MIME type writes it (line 447)
StoredBefore ==
    { << >>, <<StoredAttachment>>, <<[StoredAttachment EXCEPT !.mimeType = << >>]>> }

\* a file of the same name as the upload, outside both directories
OutsidePath == <<"elsewhere", Sep, "up1">>
OutsideContent == <<"%PDF-", "elsewhere">>

\* one upload waits in the quarantine directory, or its file is already gone
InitAttachments ==
    /\ scanMode \in ScanModes
    /\ \E uploads \in {{c} : c \in Contents} \cup {{}}, stored \in StoredBefore :
         attDisk =
           [ files |-> [p \in {<<QuarantineDir, Sep, "up1">> : c \in uploads}
                                \cup (IF stored # << >> THEN {StoredBlobPath} ELSE {})
                                \cup {OutsidePath} |->
                          IF p = StoredBlobPath THEN <<"%PDF-", "data">>
                          ELSE IF p = OutsidePath THEN OutsideContent
                          ELSE CHOOSE c \in uploads : TRUE],
             attachments |-> stored ]
    /\ fin = IdleFinalize

\* a gate failed: the handler goes on to removeFile(quarantinePath) and returns
Reject(f, error) == [f EXCEPT !.pc = "remove", !.error = error]
\* an awaited step threw: the promise of the call rejects
Raise(f, step) == [f EXCEPT !.pc = "returned", !.result = "raised", !.error = step]

\* lines 383-403: the call, up to the first await
FinalizeCall ==
    /\ fin.pc = "idle"
    /\ \E slug \in PageSlugs, quarantinePath \in QuarantinePathInputs,
          originalName \in OriginalNames, mimeType \in MimeTypes, uploadedById \in Uploaders :
         LET input == [slug |-> slug, quarantinePath |-> quarantinePath,
                       originalName |-> originalName, mimeType |-> mimeType,
                       uploadedById |-> uploadedById]
             resolved == resolveQuarantinePath(quarantinePath)
             call == [IdleFinalize EXCEPT !.input = input, !.before = <<attDisk>>] IN
         IF resolved = None
         THEN fin' = [call EXCEPT !.pc = "returned", !.result = "ok:false",
                                  !.error = "Ungültiger Upload-Kontext."]
         ELSE LET f == [call EXCEPT !.quarantinePath = resolved[1],
                                    !.originalName = sanitizeOriginalFileName(originalName),
                                    !.mimeType = finalizeMimeType(mimeType)] IN
              IF normalizeSlug(slug) = << >> \/ Trim(uploadedById) = << >>
              THEN fin' = Reject(f, "Ungültiger Upload-Kontext.")
              ELSE fin' = [f EXCEPT !.pc = "ensureStore"]
    /\ UNCHANGED <<scanMode, attDisk>>
    /\ UNCHANGED <<backupVars, indexVars, restButAtt>>

\* removeFile(quarantinePath) and return { ok: false, error }
FinalizeRemoveAndReturn ==
    /\ fin.pc = "remove"
    /\ attDisk' = [attDisk EXCEPT !.files =
                     IF IsFile(attDisk.files, fin.quarantinePath)
                     THEN Unlink(attDisk.files, fin.quarantinePath) ELSE attDisk.files]
    /\ fin' = [fin EXCEPT !.pc = "returned", !.result = "ok:false"]
    /\ UNCHANGED scanMode
    /\ UNCHANGED <<backupVars, indexVars, restButAtt>>

\* lines 405-412: ensureStoreFile, then the extension gate
FinalizeEnsureStore ==
    /\ fin.pc = "ensureStore"
    /\ \E raised \in BOOLEAN :
         LET extension == normalizeExtension(fin.originalName) IN
         fin' = IF raised THEN Raise(fin, "ensureStoreFile")
                ELSE IF extension = << >> \/ ~HasExtension(extension)
                THEN Reject(fin, "Dateityp nicht erlaubt.")
                ELSE [fin EXCEPT !.pc = "stat", !.extension = extension]
    /\ UNCHANGED <<scanMode, attDisk>>
    /\ UNCHANGED <<backupVars, indexVars, restButAtt>>

\* lines 414-418 and 221-230: fs.stat (a failure is caught), then the table of
\* validateMimeAndMagic
FinalizeStat ==
    /\ fin.pc = "stat"
    /\ LET isFile == IsFile(attDisk.files, fin.quarantinePath)
           size == IF isFile THEN Len(attDisk.files[fin.quarantinePath]) ELSE 0 IN
       fin' = IF ~isFile \/ size < 1 THEN Reject(fin, "Leere oder ungültige Datei.")
              ELSE IF ~MimeAllowed(fin.extension, fin.mimeType)
              THEN Reject(fin, "MIME-Typ nicht erlaubt.")
              ELSE [fin EXCEPT !.pc = "sniff", !.sizeBytes = size]
    /\ UNCHANGED <<scanMode, attDisk>>
    /\ UNCHANGED <<backupVars, indexVars, restButAtt>>

IsZipExtension(extension) == extension[1] \in {"docx", "xlsx", "pptx"}
IsTextExtension(extension) == extension[1] \in {"txt", "md", "csv"}

\* lines 232-240: sniffMagic and the signature checks
FinalizeSniff ==
    /\ fin.pc = "sniff"
    /\ \E raised \in BOOLEAN :
         LET magic == Window(attDisk.files[fin.quarantinePath], MagicWindow) IN
         fin' = IF raised THEN Raise(fin, "sniffMagic")
                ELSE IF fin.extension = <<"pdf">> /\ ~looksLikePdf(magic)
                THEN Reject(fin, "Datei ist kein valides PDF.")
                ELSE IF IsZipExtension(fin.extension) /\ ~looksLikeZip(magic)
                THEN Reject(fin, "Office-Datei hat keine valide ZIP-Signatur.")
                ELSE IF IsTextExtension(fin.extension)
                THEN [fin EXCEPT !.pc = "text"]
                ELSE [fin EXCEPT !.pc = "scan"]
    /\ UNCHANGED <<scanMode, attDisk>>
    /\ UNCHANGED <<backupVars, indexVars, restButAtt>>

\* lines 242-247: looksLikeText
FinalizeText ==
    /\ fin.pc = "text"
    /\ \E raised \in BOOLEAN :
         LET sample == Window(attDisk.files[fin.quarantinePath], TextWindow) IN
         fin' = IF raised THEN Raise(fin, "looksLikeText")
                ELSE IF ~looksLikeText(sample)
                THEN Reject(fin, "Textdatei enthält unerlaubte Binärdaten.")
                ELSE [fin EXCEPT !.pc = "scan"]
    /\ UNCHANGED <<scanMode, attDisk>>
    /\ UNCHANGED <<backupVars, indexVars, restButAtt>>

\* lines 424-433: runClamAvScan and its two gates
FinalizeScan ==
    /\ fin.pc = "scan"
    /\ \E outcome \in IF scanMode = "off" THEN {"not_run"} ELSE ScanOutcomes :
         LET scan == runClamAvScan(scanMode, outcome)
             f == [fin EXCEPT !.outcome = outcome, !.scan = Some(scan)] IN
         fin' = IF ~scan.ok THEN Reject(f, "Virenscan fehlgeschlagen.")
                ELSE IF ~scan.clean THEN Reject(f, "Virenscan hat potenziell schädliche Datei erkannt.")
                ELSE [f EXCEPT !.pc = "rename"]
    /\ UNCHANGED <<scanMode, attDisk>>
    /\ UNCHANGED <<backupVars, indexVars, restButAtt>>

\* lines 435-437: fs.rename(quarantinePath, finalPath)
FinalizeRename ==
    /\ fin.pc = "rename"
    /\ \E raised \in BOOLEAN :
         LET finalPath == resolveAttachmentPath(
                              buildAttachmentStorageName(attDisk.files, fin.extension)) IN
         IF raised
         THEN fin' = Raise(fin, "rename") /\ UNCHANGED attDisk
         ELSE /\ attDisk' = [attDisk EXCEPT !.files = Rename(@, fin.quarantinePath, finalPath)]
              /\ fin' = [fin EXCEPT !.pc = "hash", !.finalPath = finalPath]
    /\ UNCHANGED scanMode
    /\ UNCHANGED <<backupVars, indexVars, restButAtt>>

\* line 439: hashFileSha256(finalPath)
FinalizeHash ==
    /\ fin.pc = "hash"
    /\ \E raised \in BOOLEAN :
         fin' = IF raised THEN Raise(fin, "hashFileSha256")
                ELSE [fin EXCEPT !.pc = "save", !.sha256 = Sha256(attDisk.files[fin.finalPath])]
    /\ UNCHANGED <<scanMode, attDisk>>
    /\ UNCHANGED <<backupVars, indexVars, restButAtt>>

\* lines 110-152: null when a required field is empty, else the record with
\* its fields trimmed and lower-cased
normalizeAttachment(raw) ==
    IF \/ raw.id = "" \/ normalizeSlug(raw.slug) = << >> \/ Trim(raw.storageName) = << >>
       \/ Trim(raw.originalName) = << >> \/ Trim(raw.mimeType) = << >>
       \/ Trim(raw.extension) = << >> \/ Trim(raw.uploadedById) = << >>
    THEN None
    ELSE Some([raw EXCEPT !.slug = normalizeSlug(@), !.storageName = Trim(@),
                          !.originalName = Trim(@), !.mimeType = Trim(@),
                          !.extension = LowerCase(Trim(@)), !.uploadedById = Trim(@)])

\* Variant: every stored entry is kept as it is.
loadAttachmentsUnfiltered(stored) == stored

\* lines 161-169: the entries of attachments.json that normalizeAttachment keeps
loadAttachments(stored) ==
    LET kept == SelectSeq(stored, LAMBDA entry : normalizeAttachment(entry) # None) IN
    [i \in 1..Len(kept) |-> normalizeAttachment(kept[i])[1]]

\* randomUUID (line 444) for the call of the finalize model
FinalizeId == "id1"

\* lines 440-458
NewAttachment(f, id) ==
    [ id |-> id, uploadedById |-> Trim(f.input.uploadedById),
      slug |-> normalizeSlug(f.input.slug), storageName |-> SubSeq(f.finalPath, 3, Len(f.finalPath)),
      originalName |-> f.originalName, mimeType |-> f.mimeType, extension |-> f.extension,
      sizeBytes |-> f.sizeBytes, sha256 |-> f.sha256,
      scanStatus |-> IF f.scan[1].skipped THEN "skipped" ELSE "clean" ]

\* lines 374-380: getAttachmentById, on the content of attachments.json
getAttachmentById(stored, idInput) ==
    LET found == SelectSeq(loadAttachments(stored), LAMBDA entry : entry.id = idInput) IN
    IF idInput = "" \/ found = << >> THEN None ELSE Some(found[1])

\* lines 365-372: listAttachmentsBySlug; the entries are stored in upload
\* order, which the stable sort by uploadedAt keeps
listAttachmentsBySlug(stored, slugInput) ==
    IF normalizeSlug(slugInput) = << >> THEN << >>
    ELSE SelectSeq(loadAttachments(stored), LAMBDA entry : entry.slug = normalizeSlug(slugInput))

\* lines 460-465: loadAttachments, push, saveAttachments, return { ok: true }
FinalizeSave ==
    /\ fin.pc = "save"
    /\ \E raised \in BOOLEAN :
         IF raised
         THEN fin' = Raise(fin, "saveAttachments") /\ UNCHANGED attDisk
         ELSE /\ attDisk' = [attDisk EXCEPT !.attachments =
                                Append(loadAttachments(@), NewAttachment(fin, FinalizeId))]
              /\ fin' = [fin EXCEPT !.pc = "returned", !.result = "ok:true"]
    /\ UNCHANGED scanMode
    /\ UNCHANGED <<backupVars, indexVars, restButAtt>>

----------------------------------------------------------------------------
(* Secrets: encryptSecret and decryptSecret *)

\* A JavaScript string as the two functions see it: either text without the
\* prefix (a sequence of UTF-16 code units) or SECRET_PREFIX followed by the
\* fields that payload.split(".") yields.
Text(units) == [prefix |-> FALSE, text |-> units, parts |-> << >>]
Envelope(parts) == [prefix |-> TRUE, text |-> << >>, parts |-> parts]

\* Code units: "hi" and "lo" are a high and a low surrogate, "fffd" is U+FFFD.
Surrogates == {"hi", "lo"}

\* cipher.update(normalized, "utf8") (line 19): the UTF-8 encoding of the
\* string, one element per code point; a surrogate without its partner is
\* encoded as U+FFFD
RECURSIVE Utf8Encode(_)
Utf8Encode(units) ==
    IF units = << >> THEN << >>
    ELSE IF Len(units) >= 2 /\ units[1] = "hi" /\ units[2] = "lo"
         THEN <<"U+1F600">> \o Utf8Encode(SubSeq(units, 3, Len(units)))
    ELSE IF units[1] \in Surrogates \/ units[1] = "fffd"
         THEN <<"U+FFFD">> \o Utf8Encode(Tail(units))
    ELSE <<units[1]>> \o Utf8Encode(Tail(units))

\* decrypted.toString("utf8") (line 47)
RECURSIVE Utf8Decode(_)
Utf8Decode(bytes) ==
    IF bytes = << >> THEN << >>
    ELSE (CASE bytes[1] = "U+1F600" -> <<"hi", "lo">>
            [] bytes[1] \in {"U+FFFD", "garbage"} -> <<"fffd">>
            [] OTHER -> <<bytes[1]>>) \o Utf8Decode(Tail(bytes))

\* asBase64 (line 6): the canonical text of the bytes. A base64 text is the
\* bytes it carries and whether it also holds characters outside the alphabet.
asBase64(buffer) == [buf |-> buffer, junk |-> FALSE]

\* fromBase64 (line 7): Buffer.from(value, "base64") skips the characters that
\* are not part of the alphabet
fromBase64(text) == text.buf

\* !ivB64: the empty string (line 38); undefined is None
IsEmptyText(text) == text = None \/ (text.buf = << >> /\ ~text.junk)

\* AES-256-GCM. The ciphertext has one element per plaintext element, bound to
\* key, iv and position; the tag has TagWords words of 32 bits, each bound to
\* key, iv and ciphertext.
TagWords == 4
ValidTagWords == {1, 2, 3, 4}
GcmEncrypt(key, iv, bytes) == [i \in DOMAIN bytes |-> <<key, iv, i, bytes[i]>>]
GcmTag(key, iv, data) == [i \in 1..TagWords |-> [mac |-> <<key, iv, data>>, word |-> i]]
GcmDecrypt(key, iv, data) ==
    [i \in DOMAIN data |->
        IF data[i][1] = key /\ data[i][2] = iv /\ data[i][3] = i THEN data[i][4] ELSE "garbage"]

\* decipher.setAuthTag(tag) (line 45) on a decipher created without
\* authTagLength: it accepts every tag length GCM allows and throws for others
setAuthTag(tag) == Len(tag) \in ValidTagWords

\* decipher.final() (line 46): the words given are compared with the
\* beginning of the tag computed over the data
TagVerifies(key, iv, data, tag) ==
    \A i \in DOMAIN tag : tag[i] = GcmTag(key, iv, data)[i]

\* Variant: an empty plaintext is sealed like any other.
normalizedIsEmptyNever(normalized) == FALSE

\* line 15: normalized.length < 1
normalizedIsEmpty(normalized) == Len(normalized) < 1

\* encryptSecret, lines 11-22, with the iv that randomBytes(12) returned;
\* key is config.contentEncryptionKey (None when not configured)
encryptSecret(key, plaintext, iv) ==
    IF key = None THEN None
    ELSE IF normalizedIsEmpty(plaintext) THEN Some(Text(<< >>))
    ELSE LET encrypted == GcmEncrypt(key[1], iv, Utf8Encode(plaintext))
             tag == GcmTag(key[1], iv, encrypted) IN
         Some(Envelope(<<asBase64(<<iv>>), asBase64(tag), asBase64(encrypted)>>))

\* const [ivB64, tagB64, dataB64] = payload.split(".") (line 37)
PartOf(parts, i) == IF i \in DOMAIN parts THEN parts[i] ELSE None

\* decryptSecret, lines 24-51; null is None
decryptSecret(key, value) ==
    IF ~value.prefix THEN Some(Text(value.text))
    ELSE IF key = None THEN None
    ELSE LET ivB64 == PartOf(value.parts, 1)
             tagB64 == PartOf(value.parts, 2)
             dataB64 == PartOf(value.parts, 3) IN
         IF IsEmptyText(ivB64) \/ IsEmptyText(tagB64) \/ IsEmptyText(dataB64) THEN None
         ELSE LET iv == fromBase64(ivB64)
                  tag == fromBase64(tagB64)
                  data == fromBase64(dataB64) IN
              IF iv = << >> \/ ~setAuthTag(tag) THEN None
              ELSE IF ~TagVerifies(key[1], iv[1], data, tag) THEN None
              ELSE Some(Text(Utf8Decode(GcmDecrypt(key[1], iv[1], data))))

Keys == {"K1", "K2"}
Ivs == {"iv1", "iv2"}
Plaintexts ==
    { << >>, <<"a", "b">>, <<"hi", "lo">>, <<"a", "lo">> }

\* What someone with write access to the stored value can make of an envelope.
Alterations ==
    { "none", "iv", "ivJunk", "tagShort", "tagWord", "tagMissing", "tagEmpty",
      "dataByte", "dataCut", "extraPart" }
OtherIv(iv) == CHOOSE other \in Ivs : other # iv
Alter(value, how) ==
    IF ~value.prefix THEN value
    ELSE LET iv == value.parts[1]
             tag == value.parts[2]
             data == value.parts[3] IN
      CASE how = "iv" -> Envelope(<<asBase64(<<OtherIv(iv.buf[1])>>), tag, data>>)
        [] how = "ivJunk" -> Envelope(<<[iv EXCEPT !.junk = TRUE], tag, data>>)
        [] how = "tagShort" -> Envelope(<<iv, asBase64(SubSeq(tag.buf, 1, 1)), data>>)
        [] how = "tagWord" ->
             Envelope(<<iv, asBase64([tag.buf EXCEPT ![1].mac = <<"K0", "iv0", << >> >>]), data>>)
        [] how = "tagMissing" -> Envelope(<<iv, data>>)
        [] how = "tagEmpty" -> Envelope(<<iv, asBase64(<< >>), data>>)
        [] how = "dataByte" ->
             Envelope(<<iv, tag, asBase64([data.buf EXCEPT ![1][4] = "z"])>>)
        [] how = "dataCut" ->
             Envelope(<<iv, tag, asBase64(SubSeq(data.buf, 1, Len(data.buf) - 1))>>)
        [] how = "extraPart" -> Envelope(<<iv, tag, data, asBase64(<<"x">>)>>)
        [] OTHER -> value

MaxSealed == 2

IdleSecretOp == [op |-> "", key |-> None, input |-> << >>, output |-> None]

InitSecretsIdle ==
    /\ sealed = {}
    /\ secretOp = IdleSecretOp

\* a caller seals a secret (part_002 line 47) under the configured key
EncryptSecret ==
    /\ Cardinality(sealed) < MaxSealed
    /\ \E plaintext \in Plaintexts, iv \in Ivs :
         LET out == encryptSecret(contentKey, plaintext, iv) IN
         /\ secretOp' = [op |-> "encrypt", key |-> contentKey, input |-> plaintext,
                         output |-> out]
         /\ sealed' = IF out = None THEN sealed
                      ELSE sealed \cup {[plaintext |-> plaintext, key |-> contentKey[1],
                                         value |-> out[1]]}
    /\ UNCHANGED <<backupVars, indexVars, fileOp, lockVars, attVars, ops, json, upserts, users>>

\* a caller opens a stored value (part_002 line 68): one that encryptSecret
\* produced, possibly altered where it was stored, or plaintext stored before
\* encryption was configured
DecryptSecret ==
    /\ \E value \in {Alter(s.value, how) : s \in sealed, how \in Alterations}
                      \cup {Text(<<"a">>), Text(<< >>)} :
         secretOp' = [op |-> "decrypt", key |-> contentKey, input |-> value,
                      output |-> decryptSecret(contentKey, value)]
    /\ UNCHANGED <<backupVars, indexVars, fileOp, lockVars, attVars, ops, sealed, json, upserts, users>>

\* the process is restarted with another CONTENT_ENCRYPTION_KEY, or none
ConfigureKey ==
    /\ \E key \in {None} \cup {Some(k) : k \in Keys} :
         /\ key # contentKey
         /\ contentKey' = key
    /\ UNCHANGED <<env, clock, backupStatus, backupPromise, runs, files, lastResult,
                   indexVars, restVars>>

----------------------------------------------------------------------------
(* The search index: upsertSearchIndexBySlug *)

MaxUpserts == 2
Upserters == 1..MaxUpserts
SlugInputs == {<<"a">>, <<" ", "B">>, <<" ">>}

IdleUpsert == [pc |-> "idle", slug |-> "", page |-> None, current |-> NoPages,
               updated |-> FALSE, reason |-> ""]

InitUpsertsIdle == upserts = [u \in Upserters |-> IdleUpsert]

UpsertDone(w, updated, reason) ==
    [w EXCEPT !.pc = "done", !.updated = updated, !.reason = reason]

\* current.pages.filter((entry) => entry.slug !== normalizedSlug), lines 351, 385
filteredPages(current, normalizedSlug) ==
    [t \in DOMAIN current \ {normalizedSlug} |-> current[t]]

\* lines 329-344: the slug, the rebuild guard, getPage is awaited
UpsertCall(u) ==
    /\ upserts[u].pc = "idle"
    /\ \A v \in Upserters : v < u => upserts[v].pc # "idle"
    /\ \E slug \in SlugInputs :
         LET normalizedSlug == LowerCase(Trim(slug)) IN
         upserts' = [upserts EXCEPT ![u] =
            IF normalizedSlug = << >> THEN UpsertDone(IdleUpsert, FALSE, "invalid_slug")
            ELSE IF buildPromise # None
            THEN UpsertDone([IdleUpsert EXCEPT !.slug = normalizedSlug[1]], FALSE,
                            "rebuild_running")
            ELSE [IdleUpsert EXCEPT !.pc = "getPage", !.slug = normalizedSlug[1]]]
    /\ UNCHANGED <<backupVars, indexVars, fileOp, lockVars, attVars, ops, secretVars, json, users>>

\* lines 344-347: the page, or removeSearchIndexBySlug up to its first await
\* (lines 360-375)
UpsertGetPage(u) ==
    /\ upserts[u].pc = "getPage"
    /\ upserts' = [upserts EXCEPT ![u] =
          IF upserts[u].slug \in DOMAIN pages
          THEN [@ EXCEPT !.pc = "read", !.page = Some(pages[upserts[u].slug])]
          ELSE IF buildPromise # None THEN UpsertDone(@, FALSE, "rebuild_running")
          ELSE [@ EXCEPT !.pc = "exists"]]
    /\ UNCHANGED <<backupVars, indexVars, fileOp, lockVars, attVars, ops, secretVars, json, users>>

\* lines 376-382: checkSearchIndexExists
UpsertCheckExists(u) ==
    /\ upserts[u].pc = "exists"
    /\ upserts' = [upserts EXCEPT ![u] =
          IF indexFile = None THEN UpsertDone(@, FALSE, "index_missing")
          ELSE [@ EXCEPT !.pc = "read"]]
    /\ UNCHANGED <<backupVars, indexVars, fileOp, lockVars, attVars, ops, secretVars, json, users>>

\* lines 349-352 and 384-391: readSearchIndexFile, filter, push
UpsertRead(u) ==
    /\ upserts[u].pc = "read"
    /\ LET current == readSearchIndexFile.pages
           filtered == filteredPages(current, upserts[u].slug) IN
       upserts' = [upserts EXCEPT ![u] =
          IF upserts[u].page = None
          THEN IF DOMAIN filtered = DOMAIN current THEN UpsertDone(@, FALSE, "entry_missing")
               ELSE [@ EXCEPT !.pc = "write", !.current = filtered]
          ELSE [@ EXCEPT !.pc = "write",
                         !.current = [t \in DOMAIN filtered \cup {upserts[u].slug} |->
                                        IF t = upserts[u].slug THEN upserts[u].page[1]
                                        ELSE filtered[t]]]]
    /\ UNCHANGED <<backupVars, indexVars, fileOp, lockVars, attVars, ops, secretVars, json, users>>

\* lines 354-357 and 393-396: writeSearchIndexDocument (lines 307-318)
UpsertWrite(u) ==
    /\ upserts[u].pc = "write"
    /\ indexFile' = Some([version |-> INDEX_VERSION, pages |-> upserts[u].current])
    /\ upserts' = [upserts EXCEPT ![u] = UpsertDone(@, TRUE, "")]
    /\ UNCHANGED <<pages, buildStatus, buildPromise, rebuilds, callers>>
    /\ UNCHANGED <<backupVars, fileOp, lockVars, attVars, ops, secretVars, json, users>>

----------------------------------------------------------------------------
(* fileStore: writeJsonFile *)

\* `${JSON.stringify(data, null, 2)}\n` (part_003 line 247), in the pieces in
\* which fs.writeFile may put it on the disk
Serialize(data) == <<"{", data, "}", "\n">>
Documents == {"v1", "v2"}
InitialDocument == "v0"
JsonPath(filePath) == <<filePath>>

\* Variant: the data is written to the target itself.
tempFileInPlace(safeFilePath, uuid) == JsonPath(safeFilePath)

\* line 246: `${safeFilePath}.${randomUUID()}.tmp`
tempFile(safeFilePath, uuid) == <<safeFilePath, ".", uuid, ".", "tmp">>

IdleWrite == [pc |-> "idle", data |-> "", tempFile |-> << >>]

\* a.json exists, b.json does not exist yet
InitJsonIdle ==
    json = [files |-> (JsonPath("a.json") :> Serialize(InitialDocument)),
            writes |-> [r \in Requests |-> IdleWrite]]

\* writeJsonFile lines 241-245 and withWriteLock lines 194-204: the call is
\* queued behind the last writer of the same path
WriteJsonCall(r) ==
    /\ lockReqs[r].pc = "idle"
    /\ \A q \in Requests : q < r => lockReqs[q].pc # "idle"
    /\ \E filePath \in FilePaths, data \in Documents :
         /\ lockReqs' = [lockReqs EXCEPT ![r] =
                [IdleRequest EXCEPT !.pc = "waiting", !.key = filePath,
                                    !.current = currentPromise(filePath)]]
         /\ lockTail' = [lockTail EXCEPT ![filePath] = Some(r)]
         /\ json' = [json EXCEPT !.writes[r] = [IdleWrite EXCEPT !.pc = "open", !.data = data]]
    /\ UNCHANGED <<backupVars, indexVars, fileOp, attVars, ops, secretVars, upserts, users>>

\* line 248, fs.writeFile: the temporary file is created empty
WriteJsonOpen(r) ==
    /\ lockReqs[r].pc = "running"
    /\ json.writes[r].pc = "open"
    /\ LET temp == tempFile(lockReqs[r].key, Uuids[r]) IN
       json' = [json EXCEPT !.files = WriteFile(@, temp, << >>),
                            !.writes[r] = [@ EXCEPT !.pc = "write", !.tempFile = temp]]
    /\ UNCHANGED <<backupVars, indexVars, fileOp, lockVars, attVars, ops, secretVars, upserts, users>>

\* line 248, fs.writeFile: the next piece reaches the file
WriteJsonWrite(r) ==
    /\ lockReqs[r].pc = "running"
    /\ json.writes[r].pc = "write"
    /\ LET temp == json.writes[r].tempFile
           serialized == Serialize(json.writes[r].data)
           written == SubSeq(serialized, 1, Len(json.files[temp]) + 1) IN
       json' = [json EXCEPT !.files = WriteFile(@, temp, written),
                            !.writes[r].pc = IF written = serialized THEN "rename" ELSE "write"]
    /\ UNCHANGED <<backupVars, indexVars, fileOp, lockVars, attVars, ops, secretVars, upserts, users>>

\* line 249: fs.rename(tempFile, safeFilePath)
WriteJsonRename(r) ==
    /\ lockReqs[r].pc = "running"
    /\ json.writes[r].pc = "rename"
    /\ json' = [json EXCEPT
            !.files = Rename(@, json.writes[r].tempFile, JsonPath(lockReqs[r].key)),
            !.writes[r].pc = "renamed"]
    /\ UNCHANGED <<backupVars, indexVars, fileOp, lockVars, attVars, ops, secretVars, upserts, users>>

\* the task returned: finally of withWriteLock (lines 208-213)
WriteJsonReturn(r) ==
    /\ lockReqs[r].pc = "running"
    /\ json.writes[r].pc = "renamed"
    /\ lockReqs' = [lockReqs EXCEPT ![r] =
            [@ EXCEPT !.pc = "done", !.released = releasedAfter("returned"),
                      !.result = "returned"]]
    /\ lockTail' = IF lockTail[lockReqs[r].key] = Some(r)
                   THEN [lockTail EXCEPT ![lockReqs[r].key] = None]
                   ELSE lockTail
    /\ json' = [json EXCEPT !.writes[r].pc = "done"]
    /\ UNCHANGED <<backupVars, indexVars, fileOp, attVars, ops, secretVars, upserts, users>>

\* the process stops: no call makes another step, the disk stays as it is
ProcessStopped == \E r \in Requests : lockReqs[r].pc = "stopped"
ProcessStop ==
    /\ \E r \in Requests : lockReqs[r].pc \in {"waiting", "running"}
    /\ lockReqs' = [r \in Requests |->
            IF lockReqs[r].pc = "done" THEN lockReqs[r]
            ELSE [lockReqs[r] EXCEPT !.pc = "stopped"]]
    /\ UNCHANGED <<backupVars, indexVars, fileOp, lockTail, attVars, ops, secretVars, json, upserts, users>>

----------------------------------------------------------------------------
(* Attachments: the mutating calls under withMutationLock *)

UploadNames == <<"up1", "up2", "up3", "up4", "up5", "up6">>
AttachmentIds == <<"id1", "id2", "id3", "id4", "id5", "id6">>
UploadPath(r) == <<QuarantineDir, Sep, UploadNames[r]>>

IdleOp == [ kind |-> "", input |-> << >>, pc |-> "idle", entries |-> << >>,
            targets |-> << >>, finalPath |-> << >>, result |-> << >> ]

InitOpsIdle == ops = [r \in Requests |-> IdleOp]

\* what the callers pass; request r finalizes the upload UploadPath(r), a PDF
\* named a.pdf, with the scan switched off
StoreFinalizeInputs ==
    { [slug |-> <<"Page-1">>, mimeType |-> <<"application/pdf">>, uploadedById |-> <<"u1">>],
      [slug |-> <<"page-2">>, mimeType |-> <<"application/pdf">>, uploadedById |-> <<"u2">>],
      [slug |-> <<"page-2">>, mimeType |-> << >>, uploadedById |-> <<"u2">>],
      [slug |-> <<"Page-1">>, mimeType |-> <<"image/png">>, uploadedById |-> <<"u2">>] }
DeleteByIdInputs ==
    { [attachmentId |-> id, actorId |-> actor.id, isAdmin |-> actor.admin] :
        id \in {"id0", "id1", "nope"},
        actor \in { [id |-> <<"u1">>, admin |-> FALSE], [id |-> <<"u2", " ">>, admin |-> FALSE],
                    [id |-> <<"root">>, admin |-> TRUE] } }
      \cup { [attachmentId |-> "id0", actorId |-> << >>, isAdmin |-> TRUE] }
DeleteForPageInputs == { <<"Page-1">>, <<" ", "page-2">>, <<" ">> }

\* the disk before the first call: one attachment stored, one upload waiting
\* in the quarantine directory for every request
InitialStore == <<StoredAttachment>>
InitialFiles ==
    [p \in {StoredBlobPath} \cup {UploadPath(r) : r \in Requests} |-> <<"%PDF-", "data">>]
InitAttachmentStore ==
    /\ scanMode = "off"
    /\ attDisk = [files |-> InitialFiles, attachments |-> InitialStore]
    /\ fin = IdleFinalize
    /\ InitOpsIdle

OpRunning(r) == lockReqs[r].pc = "running"
OpResult(ok, deleted, count) == [ok |-> ok, deleted |-> deleted, count |-> count]

\* withMutationLock lines 91-98 around the three exported calls (lines 384,
\* 473, 504): the call is queued behind mutationQueue
StoreCall(r) ==
    /\ lockReqs[r].pc = "idle"
    /\ \A q \in Requests : q < r => lockReqs[q].pc # "idle"
    /\ lockReqs' = [lockReqs EXCEPT ![r] =
           [IdleRequest EXCEPT !.pc = "waiting", !.key = MutationQueue,
                               !.current = currentPromise(MutationQueue)]]
    /\ lockTail' = [lockTail EXCEPT ![MutationQueue] = Some(r)]
    /\ \/ \E input \in StoreFinalizeInputs :
            ops' = [ops EXCEPT ![r] = [IdleOp EXCEPT !.kind = "finalize", !.input = input,
                                                     !.pc = "gates"]]
       \/ \E input \in DeleteByIdInputs :
            ops' = [ops EXCEPT ![r] = [IdleOp EXCEPT !.kind = "deleteById", !.input = input,
                                                     !.pc = "load"]]
       \/ \E input \in DeleteForPageInputs :
            ops' = [ops EXCEPT ![r] = [IdleOp EXCEPT !.kind = "deleteForPage", !.input = input,
                                                     !.pc = "load"]]
    /\ UNCHANGED attDisk
    /\ UNCHANGED <<backupVars, indexVars, restButOps>>

\* the task returned: finally, release() (lines 99-103)
StoreReturn(r) ==
    /\ OpRunning(r)
    /\ ops[r].pc = "done"
    /\ lockReqs' = [lockReqs EXCEPT ![r] =
           [@ EXCEPT !.pc = "done", !.released = releasedAfter("returned"),
                     !.result = "returned"]]
    /\ UNCHANGED <<lockTail, ops, attDisk>>
    /\ UNCHANGED <<backupVars, indexVars, restButOps>>

\* finalizeAttachmentFromQuarantine lines 385-433 for request r: the gates of
\* the finalize model above, for a.pdf with the scan off
StoreFinalizeGates(r) ==
    /\ OpRunning(r)
    /\ ops[r].kind = "finalize" /\ ops[r].pc = "gates"
    /\ LET path == UploadPath(r)
           mimeType == finalizeMimeType(ops[r].input.mimeType)
           accepted == /\ normalizeSlug(ops[r].input.slug) # << >>
                       /\ IsFile(attDisk.files, path)
                       /\ Len(attDisk.files[path]) >= 1
                       /\ MimeAllowed(<<"pdf">>, mimeType)
                       /\ looksLikePdf(Window(attDisk.files[path], MagicWindow)) IN
       IF accepted
       THEN /\ ops' = [ops EXCEPT ![r].pc = "rename"]
            /\ UNCHANGED attDisk
       ELSE /\ attDisk' = [attDisk EXCEPT !.files = removeFile(@, path)]
            /\ ops' = [ops EXCEPT ![r].pc = "done", ![r].result = OpResult(FALSE, FALSE, 0)]
    /\ UNCHANGED lockVars
    /\ UNCHANGED <<backupVars, indexVars, restButOps>>

\* lines 435-439: rename into the attachments directory, hash
StoreFinalizeRename(r) ==
    /\ OpRunning(r)
    /\ ops[r].kind = "finalize" /\ ops[r].pc = "rename"
    /\ LET finalPath == resolveAttachmentPath(<<Uuids[r + 1], ".", "pdf">>) IN
       /\ attDisk' = [attDisk EXCEPT !.files = Rename(@, UploadPath(r), finalPath)]
       /\ ops' = [ops EXCEPT ![r].pc = "load", ![r].finalPath = finalPath]
    /\ UNCHANGED lockVars
    /\ UNCHANGED <<backupVars, indexVars, restButOps>>

\* lines 443-458 for request r
StoreAttachment(r) ==
    [ id |-> AttachmentIds[r], uploadedById |-> Trim(ops[r].input.uploadedById),
      slug |-> normalizeSlug(ops[r].input.slug),
      storageName |-> SubSeq(ops[r].finalPath, 3, Len(ops[r].finalPath)),
      originalName |-> <<"a", ".", "pdf">>,
      mimeType |-> finalizeMimeType(ops[r].input.mimeType), extension |-> <<"pdf">>,
      sizeBytes |-> Len(attDisk.files[ops[r].finalPath]),
      sha256 |-> Sha256(attDisk.files[ops[r].finalPath]), scanStatus |-> "skipped" ]

\* line 460-461: loadAttachments, push
StoreFinalizeLoad(r) ==
    /\ OpRunning(r)
    /\ ops[r].kind = "finalize" /\ ops[r].pc = "load"
    /\ ops' = [ops EXCEPT ![r].pc = "save",
                          ![r].entries = Append(loadAttachments(attDisk.attachments),
                                                StoreAttachment(r))]
    /\ UNCHANGED <<lockVars, attDisk>>
    /\ UNCHANGED <<backupVars, indexVars, restButOps>>

\* lines 462-464: saveAttachments, return { ok: true, attachment }
StoreFinalizeSave(r) ==
    /\ OpRunning(r)
    /\ ops[r].kind = "finalize" /\ ops[r].pc = "save"
    /\ attDisk' = [attDisk EXCEPT !.attachments = ops[r].entries]
    /\ ops' = [ops EXCEPT ![r].pc = "done", ![r].result = OpResult(TRUE, FALSE, 0)]
    /\ UNCHANGED lockVars
    /\ UNCHANGED <<backupVars, indexVars, restButOps>>

\* line 487: the negation of !input.isAdmin && target.uploadedById !== actorId
mayDelete(target, actorId, isAdmin) == isAdmin \/ target.uploadedById = actorId

\* index of the first entry with the id (findIndex, line 481), 0 for -1
FindIndex(entries, id) ==
    IF \E i \in DOMAIN entries : entries[i].id = id
    THEN CHOOSE i \in DOMAIN entries :
           entries[i].id = id /\ \A j \in 1..(i - 1) : entries[j].id # id
    ELSE 0

\* entries.splice(index, 1)
Splice(entries, index) ==
    SubSeq(entries, 1, index - 1) \o SubSeq(entries, index + 1, Len(entries))

\* deleteAttachmentById lines 474-491: arguments, loadAttachments, the entry
\* and the actor
DeleteByIdLoad(r) ==
    /\ OpRunning(r)
    /\ ops[r].kind = "deleteById" /\ ops[r].pc = "load"
    /\ LET attachmentId == ops[r].input.attachmentId
           actorId == Trim(ops[r].input.actorId)
           entries == loadAttachments(attDisk.attachments)
           index == FindIndex(entries, attachmentId) IN
       ops' = IF attachmentId = "" \/ actorId = << >>
              THEN [ops EXCEPT ![r].pc = "done", ![r].result = OpResult(FALSE, FALSE, 0)]
              ELSE IF index = 0
              THEN [ops EXCEPT ![r].pc = "done", ![r].result = OpResult(TRUE, FALSE, 0)]
              ELSE IF ~mayDelete(entries[index], actorId, ops[r].input.isAdmin)
              THEN [ops EXCEPT ![r].pc = "done", ![r].result = OpResult(FALSE, FALSE, 0)]
              ELSE [ops EXCEPT ![r].pc = "save", ![r].entries = Splice(entries, index),
                               ![r].targets = <<entries[index]>>]
    /\ UNCHANGED <<lockVars, attDisk>>
    /\ UNCHANGED <<backupVars, indexVars, restButOps>>

\* Variant: the entries of the page stay in the saved list.
remainingWithTargets(entries, slug) == entries

\* line 510
remainingForPage(entries, slug) == SelectSeq(entries, LAMBDA entry : entry.slug # slug)

\* deleteAttachmentsForPage lines 505-512
DeleteForPageLoad(r) ==
    /\ OpRunning(r)
    /\ ops[r].kind = "deleteForPage" /\ ops[r].pc = "load"
    /\ LET slug == normalizeSlug(ops[r].input)
           entries == loadAttachments(attDisk.attachments)
           targets == SelectSeq(entries, LAMBDA entry : entry.slug = slug) IN
       ops' = IF slug = << >> \/ targets = << >>
              THEN [ops EXCEPT ![r].pc = "done", ![r].result = OpResult(TRUE, FALSE, 0)]
              ELSE [ops EXCEPT ![r].pc = "save", ![r].entries = remainingForPage(entries, slug),
                               ![r].targets = targets]
    /\ UNCHANGED <<lockVars, attDisk>>
    /\ UNCHANGED <<backupVars, indexVars, restButOps>>

\* lines 491-492 and 514: saveAttachments without the removed entries
DeleteSave(r) ==
    /\ OpRunning(r)
    /\ ops[r].kind \in {"deleteById", "deleteForPage"} /\ ops[r].pc = "save"
    /\ attDisk' = [attDisk EXCEPT !.attachments = ops[r].entries]
    /\ ops' = [ops EXCEPT ![r].pc = "remove",
                          ![r].result = OpResult(TRUE, TRUE, Len(ops[r].targets))]
    /\ UNCHANGED lockVars
    /\ UNCHANGED <<backupVars, indexVars, restButOps>>

\* lines 493-499 and 516-524: removeFile for the next removed entry's blob,
\* the return after the last one; an unlink that fails is swallowed by
\* removeFile (part_003 lines 294-297) and leaves the blob where it is
DeleteRemoveBlob(r) ==
    /\ OpRunning(r)
    /\ ops[r].kind \in {"deleteById", "deleteForPage"} /\ ops[r].pc = "remove"
    /\ \/ attDisk' = [attDisk EXCEPT !.files =
                     removeFile(@, resolveAttachmentPath(Head(ops[r].targets).storageName))]
       \/ UNCHANGED attDisk
    /\ ops' = [ops EXCEPT ![r].targets = Tail(@),
                          ![r].pc = IF Len(ops[r].targets) = 1 THEN "done" ELSE "remove"]
    /\ UNCHANGED lockVars
    /\ UNCHANGED <<backupVars, indexVars, restButOps>>

----------------------------------------------------------------------------
(* The user store: the calls under withMutationLock and the two outside it *)

MaxUserCalls == 2
\* The calls are numbered in the order in which they are made.
UserCalls == 1..MaxUserCalls

\* crypto.randomUUID(): a fresh id for every call that makes one
randomUUID(c) == <<"uuid", c>>
\* new Date().toISOString(): the time a call reads is named after the call
NowOf(c) == c

\* password.js: a hash records the scheme and the password it was made from
hashPassword(password) == [scheme |-> "current", password |-> password]
verifyPassword(password, passwordHash) == passwordHash.password = password
needsRehash(passwordHash) == passwordHash.scheme # "current"

\* line 32
normalizeUsername(username) == LowerCase(Trim(username))

\* the number of characters of a string of tokens
RECURSIVE CharLength(_)
CharLength(s) == IF s = << >> THEN 0 ELSE Len(Head(s)) + CharLength(Tail(s))

\* The tokens made of the characters a-z, 0-9, '.', '_' and '-' only.
UsernameTokens == {"root", "admin", "alice", "r"}

\* USERNAME_PATTERN (line 8) and lines 122-136; None is null
validateUserInput(username, displayName) ==
    LET normalized == normalizeUsername(username) IN
    IF ~(/\ \A i \in 1..Len(normalized) : normalized[i] \in UsernameTokens
         /\ CharLength(normalized) >= 3
         /\ CharLength(normalized) <= 32)
    THEN Some("Benutzername ungültig.")
    ELSE IF CharLength(Trim(displayName)) < 2 \/ CharLength(Trim(displayName)) > 80
    THEN Some("Anzeigename ungültig.")
    ELSE None

\* VALID_THEMES, line 34
VALID_THEMES == {"light", "dark", "system"}

\* loadUsers lines 40-58 on the records of the file; no record carries an
\* e-mail address, so that `email` stays undefined
loadUsers(file) ==
    [i \in 1..Len(file) |->
        [file[i] EXCEPT !.theme = IF file[i].theme \in VALID_THEMES THEN file[i].theme
                                  ELSE "system"]]

\* saveUsers lines 60-84: without e-mail addresses the records are persisted
\* as they are (line 80)
saveUsers(list) == list

\* users.find(...) of lines 227, 270, 301, 338, 349: the index of the first
\* match, 0 when there is none
FirstIndex(matches) ==
    IF matches = {} THEN 0 ELSE CHOOSE i \in matches : \A k \in matches : i <= k
findById(list, userId) == FirstIndex({i \in 1..Len(list) : list[i].id = userId})
findByUsername(list, normalizedUsername) ==
    FirstIndex({i \in 1..Len(list) :
                    normalizeUsername(list[i].username) = normalizedUsername})

\* The account the store may hold before the first call; its password is "p".
\* The first form is a record of an old release: old hash scheme, no theme.
FirstUserId == <<"uuid", 0>>
StoredUser(scheme, theme) ==
    [id |-> FirstUserId, username |-> <<"alice">>, displayName |-> <<"Alice">>,
     role |-> "user", passwordHash |-> [scheme |-> scheme, password |-> "p"],
     createdAt |-> 0, updatedAt |-> 0, disabled |-> FALSE, theme |-> theme,
     lastLoginAt |-> None]
InitialUserFiles ==
    { << >>, <<StoredUser("old", "")>>, <<StoredUser("current", "system")>> }

\* lines 186-198 and 375-387
NewAdmin(c, username, displayName, password) ==
    [id |-> randomUUID(c), username |-> username, displayName |-> displayName,
     role |-> "admin", passwordHash |-> hashPassword(password),
     createdAt |-> NowOf(c), updatedAt |-> NowOf(c), disabled |-> FALSE,
     theme |-> "system", lastLoginAt |-> None]

\* The exported calls; the first six run their body under withMutationLock.
InitialAdminCalls == {"setupInitialAdmin", "ensureInitialAdmin"}
LockedCalls == InitialAdminCalls \cup
    {"updateUser", "changeUserPassword", "updateUserTheme", "touchLastLogin"}
UnlockedCalls == {"migrateUserSecretStorage", "verifyUserCredentials"}

NoInput == [userId |-> FirstUserId, username |-> << >>, displayName |-> << >>,
            password |-> "", newPassword |-> "", role |-> "user", disabled |-> FALSE,
            theme |-> None]
UserInputs(kind) ==
    CASE kind = "setupInitialAdmin" ->
            { [NoInput EXCEPT !.username = u, !.displayName = <<"Root">>, !.password = "s"]
                : u \in {<<" ", "Root">>, <<"r">>} }
      [] kind = "updateUser" ->
            { [NoInput EXCEPT !.displayName = <<"Al">>, !.role = "admin"],
              [NoInput EXCEPT !.displayName = <<"Al">>, !.disabled = TRUE,
                              !.theme = Some("light")],
              [NoInput EXCEPT !.displayName = <<" ">>] }
      [] kind = "changeUserPassword" ->
            { [NoInput EXCEPT !.password = old, !.newPassword = "n"] : old \in {"p", "q"} }
      [] kind = "updateUserTheme" ->
            { [NoInput EXCEPT !.theme = Some(t)] : t \in {"light", "dark"} }
      [] kind = "verifyUserCredentials" ->
            { [NoInput EXCEPT !.username = <<"Alice", " ">>, !.password = p]
                : p \in {"p", "q"} }
      [] OTHER -> {NoInput}

\* waitFor: None is an already resolved promise, Some(d) the promise call d
\* installed (lines 13-17).  read: the file as loadUsers found it; list: the
\* call's `users` array.
IdleUserCall == [pc |-> "idle", kind |-> "", input |-> NoInput, waitFor |-> None,
                 released |-> FALSE, read |-> << >>, list |-> << >>, result |-> ""]

InitUsersIdle ==
    users = [file |-> << >>, bootstrapPassword |-> None, mutationQueue |-> None,
             calls |-> [c \in UserCalls |-> IdleUserCall]]

\* Variant: the queue is not consulted, every call starts at once.
waitForResolved(queue) == None

\* line 13: const waitFor = mutationQueue
waitForQueue(queue) == queue

\* the task's promise settles; finally, release() (lines 20-24)
UserReturn(call, result) ==
    [call EXCEPT !.pc = "done", !.result = result,
                 !.released = call.kind \in LockedCalls]

\* the promise a call waits for is resolved by the release() of the call that
\* installed it (lines 15-17, 23)
WaitIsOver(waitFor) ==
    IF waitFor = None THEN TRUE ELSE users.calls[waitFor[1]].released

\* the exported function is called: withMutationLock up to `await waitFor`
\* (lines 13-19), or the unlocked body up to the await in loadUsers
UserCall(c) ==
    /\ users.calls[c].pc = "idle"
    /\ \A d \in UserCalls : d < c => users.calls[d].pc # "idle"
    /\ \E kind \in LockedCalls \cup UnlockedCalls :
       \E input \in UserInputs(kind) :
         users' =
            IF kind \in LockedCalls
            THEN [users EXCEPT
                    !.mutationQueue = Some(c),
                    !.calls[c] = [IdleUserCall EXCEPT
                                    !.pc = "waiting", !.kind = kind, !.input = input,
                                    !.waitFor = waitForQueue(users.mutationQueue)]]
            ELSE [users EXCEPT
                    !.calls[c] = [IdleUserCall EXCEPT
                                    !.pc = "load", !.kind = kind, !.input = input]]
    /\ UNCHANGED <<backupVars, indexVars, fileOp, lockVars, attVars, ops, secretVars,
                   json, upserts>>

\* `await waitFor` is over: task() runs up to the await in loadUsers; only
\* updateUser returns before it (lines 223-225)
UserTaskStart(c) ==
    LET call == users.calls[c] IN
    /\ call.pc = "waiting"
    /\ WaitIsOver(call.waitFor)
    /\ users' = [users EXCEPT !.calls[c] =
          IF /\ call.kind = "updateUser"
             /\ \/ CharLength(Trim(call.input.displayName)) < 2
                \/ CharLength(Trim(call.input.displayName)) > 80
          THEN UserReturn(call, "Anzeigename ungültig.")
          ELSE [call EXCEPT !.pc = "load"]]
    /\ UNCHANGED <<backupVars, indexVars, fileOp, lockVars, attVars, ops, secretVars,
                   json, upserts>>

\* what follows `await loadUsers()` up to the next await or the return
AfterLoad(c, call, list) ==
    LET input == call.input
        byId == findById(list, input.userId)
        byName == findByUsername(list, normalizeUsername(input.username))
        Saving(changed) == [call EXCEPT !.pc = "save", !.list = changed]
    IN
    CASE call.kind = "setupInitialAdmin" ->          \* lines 177-185
            IF Len(list) > 0 THEN UserReturn(call, "Setup bereits abgeschlossen.")
            ELSE IF validateUserInput(input.username, input.displayName) # None
            THEN UserReturn(call, validateUserInput(input.username, input.displayName)[1])
            ELSE [call EXCEPT !.pc = "hash"]
      [] call.kind = "ensureInitialAdmin" ->         \* lines 362-370
            IF Len(list) > 0 THEN UserReturn(call, "exists")
            ELSE IF users.bootstrapPassword = None THEN UserReturn(call, "pendingSetup")
            ELSE [call EXCEPT !.pc = "hash"]
      [] call.kind = "updateUser" ->                 \* lines 227-240
            IF byId = 0 THEN UserReturn(call, "Benutzer nicht gefunden.")
            ELSE Saving([list EXCEPT
                    ![byId] = [@ EXCEPT
                        !.displayName = Trim(input.displayName),
                        !.role = input.role,
                        !.disabled = input.disabled,
                        !.theme = IF input.theme # None THEN input.theme[1] ELSE @,
                        !.updatedAt = NowOf(c)]])
      [] call.kind = "updateUserTheme" ->            \* lines 338-342
            IF byId = 0 THEN UserReturn(call, "")
            ELSE Saving([list EXCEPT ![byId] = [@ EXCEPT !.theme = input.theme[1],
                                                         !.updatedAt = NowOf(c)]])
      [] call.kind = "touchLastLogin" ->             \* lines 349-357
            IF byId = 0 THEN UserReturn(call, "")
            ELSE Saving([list EXCEPT ![byId] = [@ EXCEPT !.lastLoginAt = Some(NowOf(c)),
                                                         !.updatedAt = NowOf(c)]])
      [] call.kind = "changeUserPassword" ->         \* lines 301-306
            IF byId = 0 THEN UserReturn(call, "Benutzer nicht gefunden.")
            ELSE [call EXCEPT !.pc = "verify", !.list = list]
      [] call.kind = "migrateUserSecretStorage" ->   \* lines 98-99
            Saving(list)
      [] call.kind = "verifyUserCredentials" ->      \* lines 270-279
            IF byName = 0 THEN UserReturn(call, "Ungültige Zugangsdaten.")
            ELSE IF list[byName].disabled THEN UserReturn(call, "Dieses Konto ist deaktiviert.")
            ELSE [call EXCEPT !.pc = "verify", !.list = list]

\* `await loadUsers()` returns the file's records
UserLoad(c) ==
    LET call == users.calls[c] IN
    /\ call.pc = "load"
    /\ users' = [users EXCEPT !.calls[c] =
          [AfterLoad(c, call, loadUsers(users.file)) EXCEPT !.read = users.file]]
    /\ UNCHANGED <<backupVars, indexVars, fileOp, lockVars, attVars, ops, secretVars,
                   json, upserts>>

\* `await verifyPassword(...)` returns (lines 279-285 and 306-311)
UserVerified(c) ==
    LET call == users.calls[c]
        at == IF call.kind = "changeUserPassword"
              THEN findById(call.list, call.input.userId)
              ELSE findByUsername(call.list, normalizeUsername(call.input.username))
        valid == verifyPassword(call.input.password, call.list[at].passwordHash)
    IN
    /\ call.pc = "verify"
    /\ users' = [users EXCEPT !.calls[c] =
          IF call.kind = "changeUserPassword"
          THEN IF ~valid THEN UserReturn(call, "Aktuelles Passwort ist falsch.")
               ELSE [call EXCEPT !.pc = "hash"]
          ELSE IF ~valid THEN UserReturn(call, "Ungültige Zugangsdaten.")
               ELSE IF needsRehash(call.list[at].passwordHash)
               THEN [call EXCEPT !.pc = "hash"]
               ELSE UserReturn(call, "ok")]
    /\ UNCHANGED <<backupVars, indexVars, fileOp, lockVars, attVars, ops, secretVars,
                   json, upserts>>

\* `await hashPassword(...)` returns: the record is built or changed, and
\* saveUsers is called (lines 186-200, 285-288, 311-314, 375-389)
UserHashed(c) ==
    LET call == users.calls[c]
        input == call.input
        at == IF call.kind = "changeUserPassword"
              THEN findById(call.list, input.userId)
              ELSE findByUsername(call.list, normalizeUsername(input.username))
        Rehashed(password) ==
            [call.list EXCEPT ![at] = [@ EXCEPT !.passwordHash = hashPassword(password),
                                                !.updatedAt = NowOf(c)]]
    IN
    /\ call.pc = "hash"
    /\ users' = [users EXCEPT !.calls[c] =
          [call EXCEPT
             !.pc = "save",
             !.list =
                CASE call.kind = "setupInitialAdmin" ->
                        <<NewAdmin(c, normalizeUsername(input.username),
                                   Trim(input.displayName), input.password)>>
                  [] call.kind = "ensureInitialAdmin" ->
                        <<NewAdmin(c, normalizeUsername(<<"admin">>), <<"Administrator">>,
                                   users.bootstrapPassword[1])>>
                  [] call.kind = "changeUserPassword" -> Rehashed(input.newPassword)
                  [] OTHER -> Rehashed(input.password)]]
    /\ UNCHANGED <<backupVars, indexVars, fileOp, lockVars, attVars, ops, secretVars,
                   json, upserts>>

\* `await saveUsers(users)` returns: the file holds the call's list, and the
\* call returns
UserSave(c) ==
    LET call == users.calls[c] IN
    /\ call.pc = "save"
    /\ users' = [users EXCEPT
          !.file = saveUsers(call.list),
          !.calls[c] = UserReturn(call, IF call.kind \in InitialAdminCalls THEN "created"
                                        ELSE "ok")]
    /\ UNCHANGED <<backupVars, indexVars, fileOp, lockVars, attVars, ops, secretVars,
                   json, upserts>>

----------------------------------------------------------------------------
(* Specifications *)

\* The configurations: BACKUP_ENCRYPTION_KEY unset (no content key), blank,
\* set and different from the content key, set and equal to it.
Configs ==
    { [env |-> << >>, key |-> None],
      [env |-> <<" ">>, key |-> Some(<<"k">>)],
      [env |-> <<" ", "p", " ">>, key |-> Some(<<"k">>)],
      [env |-> <<"k", " ">>, key |-> Some(<<"k">>)] }

InitIndex ==
    /\ pages = NoPages
    /\ indexFile \in {None, Some([version |-> 1, pages |-> NoPages])}
    /\ buildStatus = defaultBuildStatus
    /\ buildPromise = None
    /\ rebuilds = [o \in Owners |-> IdleRebuild]
    /\ callers = [c \in Callers |-> IdleCaller]

InitBackup ==
    /\ clock = 0
    /\ backupStatus = defaultStatus
    /\ backupPromise = None
    /\ runs = [j \in Runs |-> IdleRun]
    /\ files = [p \in {} |-> << >>]
    /\ lastResult = None

\* the other library modules at rest
InitRest ==
    /\ fileOp = IdleFileOp
    /\ InitLocks
    /\ InitAttachmentsIdle
    /\ InitOpsIdle
    /\ InitSecretsIdle
    /\ InitJsonIdle
    /\ InitUpsertsIdle
    /\ InitUsersIdle

Init ==
    /\ \E c \in Configs : env = c.env /\ contentKey = c.key
    /\ InitBackup
    /\ InitIndex
    /\ indexFile = None
    /\ InitRest

Next ==
    \/ StartBackupJob
    \/ \E j \in Runs : EnsureBackupDir(j)
    \/ \E j \in Runs : ListDataFiles(j)
    \/ \E j \in Runs : TarStdoutLine(j)
    \/ \E j \in Runs : TarSpawnError(j)
    \/ \E j \in Runs : TarClose(j)
    \/ \E j \in Runs : StatArchive(j)
    \/ \E j \in Runs : EncryptChunk(j)
    \/ \E j \in Runs : EncryptEnd(j)
    \/ \E j \in Runs : WriteHeader(j)
    \/ \E j \in Runs : StatCipher(j)
    \/ \E j \in Runs : CopyChunk(j)
    \/ \E j \in Runs : CopyEnd(j)
    \/ \E j \in Runs : RenameOutput(j)
    \/ \E j \in Runs : HashArtifact(j)
    \/ \E j \in Runs : WriteChecksum(j)
    \/ \E j \in Runs : RemoveCipherTemp(j)
    \/ \E j \in Runs : RemoveOutputTemp(j)
    \/ \E j \in Runs : StatOutput(j)
    \/ \E j \in Runs : RemoveArchiveTemp(j)
    \/ \E j \in Runs : CatchError(j)
    \/ \E j \in Runs : ClearPromise(j)

Spec == Init /\ [][Next]_vars

\* The event loop runs every pending continuation and every event of a
\* process or stream that terminates: a run of runBackup that can step does.
RunStep(j) ==
    \/ EnsureBackupDir(j) \/ ListDataFiles(j) \/ TarStdoutLine(j) \/ TarSpawnError(j)
    \/ TarClose(j) \/ StatArchive(j) \/ EncryptChunk(j) \/ EncryptEnd(j)
    \/ WriteHeader(j) \/ StatCipher(j) \/ CopyChunk(j) \/ CopyEnd(j)
    \/ RenameOutput(j) \/ HashArtifact(j) \/ WriteChecksum(j) \/ RemoveCipherTemp(j)
    \/ RemoveOutputTemp(j) \/ StatOutput(j) \/ RemoveArchiveTemp(j)
    \/ CatchError(j) \/ ClearPromise(j)

FairSpec == Spec /\ \A j \in Runs : WF_vars(RunStep(j))

\* The search index alone (the backup job idle).
InitSearchIndex ==
    /\ env = << >>
    /\ contentKey = None
    /\ InitBackup
    /\ InitIndex
    /\ InitRest

NextIndex ==
    \/ StartSearchIndexRebuild
    \/ FinishStartedRebuild
    \/ EditPage
    \/ \E o \in Owners : RebuildListPages(o)
    \/ \E o \in Owners : RebuildGetPage(o)
    \/ \E o \in Owners : RebuildWrite(o)
    \/ \E o \in Owners : RebuildFail(o)
    \/ \E c \in Callers : EnsureCall(c)
    \/ \E c \in Callers : EnsureCheckExists(c)
    \/ \E c \in Callers : EnsureListPages(c)
    \/ \E c \in Callers : EnsureReadIndex(c)
    \/ \E c \in Callers : EnsureReturn(c)

SpecIndex == InitSearchIndex /\ [][NextIndex]_vars

\* The backup directory at rest (no job running), with any mix of artifacts,
\* sidecars, directories named like artifacts and other files in it.
BackupDirEntries ==
    LET Names == {outputFileName(t) : t \in 0..MaxClock} IN
    Names \cup {checksumPath(n) : n \in Names} \cup {<<"x">>}

InitBackupFiles ==
    /\ env = << >>
    /\ contentKey = None
    /\ clock = 0
    /\ backupStatus = defaultStatus
    /\ backupPromise = None
    /\ runs = [j \in Runs |-> IdleRun]
    /\ lastResult = None
    /\ \E present \in SUBSET BackupDirEntries, dirs \in SUBSET {outputFileName(0)} :
         files = [p \in present |->
                    IF p \in dirs THEN DirectoryEntry
                    ELSE IF testSafeBackupFilePattern(p) THEN BackupHeader(Now) \o Encrypt(ArchiveBytes)
                    ELSE <<"bytes">>]
    /\ InitIndex
    /\ indexFile = None
    /\ fileOp = IdleFileOp
    /\ InitLocks
    /\ InitAttachmentsIdle
    /\ InitOpsIdle
    /\ InitSecretsIdle
    /\ InitJsonIdle
    /\ InitUpsertsIdle
    /\ InitUsersIdle

NextBackupFiles ==
    \/ FileOpCall
    \/ ResolveStat
    \/ ResolveReturn
    \/ DeleteArtifact
    \/ DeleteChecksum

SpecBackupFiles == InitBackupFiles /\ [][NextBackupFiles]_vars

\* The locks alone.
NextAttachments ==
    \/ FinalizeCall
    \/ FinalizeRemoveAndReturn
    \/ FinalizeEnsureStore
    \/ FinalizeStat
    \/ FinalizeSniff
    \/ FinalizeText
    \/ FinalizeScan
    \/ FinalizeRename
    \/ FinalizeHash
    \/ FinalizeSave

InitSpecAttachments ==
    /\ env = << >>
    /\ contentKey = None
    /\ InitBackup
    /\ InitIndex
    /\ indexFile = None
    /\ fileOp = IdleFileOp
    /\ InitLocks
    /\ InitAttachments
    /\ InitOpsIdle
    /\ InitSecretsIdle
    /\ InitJsonIdle
    /\ InitUpsertsIdle
    /\ InitUsersIdle

SpecAttachments == InitSpecAttachments /\ [][NextAttachments]_vars

NextUpsert ==
    \E u \in Upserters :
        \/ UpsertCall(u)
        \/ UpsertGetPage(u)
        \/ UpsertCheckExists(u)
        \/ UpsertRead(u)
        \/ UpsertWrite(u)

\* no rebuild is running; both pages exist, or only page a
InitSpecUpsert ==
    /\ env = << >>
    /\ contentKey = None
    /\ InitBackup
    /\ pages \in {[s \in Slugs |-> "t1"], [s \in {"a"} |-> "t1"]}
    /\ indexFile \in {None, Some(emptyIndexFile),
                      Some([version |-> INDEX_VERSION, pages |-> [s \in {"b"} |-> "t0"]])}
    /\ buildStatus = defaultBuildStatus
    /\ buildPromise = None
    /\ rebuilds = [o \in Owners |-> IdleRebuild]
    /\ callers = [c \in Callers |-> IdleCaller]
    /\ InitRest

SpecUpsert == InitSpecUpsert /\ [][NextUpsert]_vars

NextUsers ==
    \E c \in UserCalls :
        \/ UserCall(c)
        \/ UserTaskStart(c)
        \/ UserLoad(c)
        \/ UserVerified(c)
        \/ UserHashed(c)
        \/ UserSave(c)

\* the store is empty or holds one account; BOOTSTRAP_ADMIN_PASSWORD is set or not
InitSpecUsers ==
    /\ env = << >>
    /\ contentKey = None
    /\ InitBackup
    /\ InitIndex
    /\ indexFile = None
    /\ fileOp = IdleFileOp
    /\ InitLocks
    /\ InitAttachmentsIdle
    /\ InitOpsIdle
    /\ InitSecretsIdle
    /\ InitJsonIdle
    /\ InitUpsertsIdle
    /\ \E file \in InitialUserFiles, password \in {None, Some("b")} :
          users = [file |-> file, bootstrapPassword |-> password, mutationQueue |-> None,
                   calls |-> [c \in UserCalls |-> IdleUserCall]]

SpecUsers == InitSpecUsers /\ [][NextUsers]_vars

NextJsonWrite ==
    \/ ProcessStop
    \/ \E r \in Requests :
         \/ WriteJsonCall(r)
         \/ LockTaskStart(r)
         \/ WriteJsonOpen(r)
         \/ WriteJsonWrite(r)
         \/ WriteJsonRename(r)
         \/ WriteJsonReturn(r)

SpecJsonWrite == Init /\ [][NextJsonWrite]_vars

NextSecrets == EncryptSecret \/ DecryptSecret \/ ConfigureKey

InitSpecSecrets ==
    /\ env = << >>
    /\ contentKey \in {None} \cup {Some(k) : k \in Keys}
    /\ InitBackup
    /\ InitIndex
    /\ indexFile = None
    /\ InitRest

SpecSecrets == InitSpecSecrets /\ [][NextSecrets]_vars

NextAttachmentStore ==
    \E r \in Requests :
        \/ StoreCall(r)
        \/ LockTaskStart(r)
        \/ StoreReturn(r)
        \/ StoreFinalizeGates(r)
        \/ StoreFinalizeRename(r)
        \/ StoreFinalizeLoad(r)
        \/ StoreFinalizeSave(r)
        \/ DeleteByIdLoad(r)
        \/ DeleteForPageLoad(r)
        \/ DeleteSave(r)
        \/ DeleteRemoveBlob(r)

InitSpecAttachmentStore ==
    /\ env = << >>
    /\ contentKey = None
    /\ InitBackup
    /\ InitIndex
    /\ indexFile = None
    /\ fileOp = IdleFileOp
    /\ InitLocks
    /\ InitAttachmentStore
    /\ InitSecretsIdle
    /\ InitJsonIdle
    /\ InitUpsertsIdle
    /\ InitUsersIdle

SpecAttachmentStore == InitSpecAttachmentStore /\ [][NextAttachmentStore]_vars

NextLocks ==
    \/ \E r \in Requests : LockRequest(r)
    \/ \E r \in Requests : LockTaskStart(r)
    \/ \E r \in Requests : LockTaskEnd(r)

SpecLocks == InitSearchIndex /\ [][NextLocks]_vars

\* A task that is called settles, and a continuation that can run does.
FairSpecLocks ==
    SpecLocks /\ \A r \in Requests : WF_vars(LockTaskStart(r) \/ LockTaskEnd(r))


----------------------------------------------------------------------------
(* Claims about the backup job *)

\* A runBackup execution is in progress from the call until its promise settles.
RunBackupActive(j) == runs[j].pc \notin {"idle", "rejected", "resolved", "caught"}

Accepted == lastResult # None /\ lastResult[1].started
RejectedAs(reason) ==
    /\ lastResult # None
    /\ ~lastResult[1].started
    /\ lastResult[1].reason = Some(reason)

IsTempPath(p) ==
    \/ Head(p) = ".tmp-"
    \/ p[Len(p)] \in {".cipherpart", ".tmp"}

\* C1: a call made while the handle of an earlier job is installed returns
\* started:false with the already-running reason, the call that found no job
\* in flight (passphrase configured) returned started:true and installed the
\* handle, and never are two runBackup executions in progress.
C1_SingleFlight ==
    /\ [](Cardinality({j \in Runs : RunBackupActive(j)}) <= 1)
    /\ [](Cardinality({j \in Runs : InProgress(j)}) = IF backupPromise = None THEN 0 ELSE 1)
    /\ [][StartBackupJob =>
            IF backupPromise # None
            THEN RejectedAs(ReasonRunning)' /\ backupPromise' = backupPromise
            ELSE Trim(env) # << >> => Accepted' /\ backupPromise' # None]_vars

C1_Witness ==
    /\ RejectedAs(ReasonRunning)
    /\ \E j \in Runs : runs[j].pc = "tar"

\* C3: a call made while a job is in flight returns started:false with a copy
\* of the current status, changes neither the status nor the handle nor any
\* run, and a run only ever begins in a step whose call returned started:true.
C3_RejectedCallFrame ==
    /\ [][(StartBackupJob /\ backupPromise # None) =>
            /\ lastResult' = Some([started |-> FALSE, reason |-> Some(ReasonRunning),
                                   status |-> backupStatus])
            /\ UNCHANGED <<backupStatus, backupPromise, runs, files>>]_vars
    /\ [][(\E j \in Runs : runs[j].pc = "idle" /\ runs'[j].pc # "idle") => Accepted']_vars

C3_Witness ==
    /\ RejectedAs(ReasonRunning)
    /\ lastResult[1].status.phase = "encrypting"
    /\ backupStatus.phase = "encrypting"

\* C4: an installed handle is eventually cleared, whatever the job's outcome,
\* and a call that finds the handle cleared and the passphrase configured
\* returns started:true.
C4_SlotReleased ==
    /\ (backupPromise # None) ~> (backupPromise = None)
    /\ [][(StartBackupJob /\ backupPromise = None /\ Trim(env) # << >>) => Accepted']_vars

\* a job is accepted after an earlier job left its artifact behind
C4_Witness ==
    /\ Accepted
    /\ \E p \in DOMAIN files : ~IsTempPath(p)

\* C5: every job that was started reaches the point where its promise chain
\* has handled the outcome, with phase done or error and running = false.
C5_JobTerminates ==
    (\E j \in Runs : InProgress(j)) ~>
        ( /\ \E j \in Runs : runs[j].pc \in {"resolved", "caught"}
          /\ backupStatus.phase \in {"done", "error"}
          /\ backupStatus.running = FALSE )

C5_Witness ==
    \E j \in Runs : runs[j].pc = "resolved" /\ backupStatus.phase = "done"

\* C6: the percent is always an integer in 0..100 and no step lowers it,
\* except the step in which startBackupJob starts the next job.
C6_PercentMonotone ==
    /\ [](backupStatus.percent \in 0..100)
    /\ [][Accepted' \/ backupStatus'.percent >= backupStatus.percent]_vars

\* half of a two-byte archive is encrypted: Math.round(65 + 0.5 * 25) = 78
C6_Witness == backupStatus.phase = "encrypting" /\ backupStatus.percent = 78

\* C7: running = false exactly in the phases idle, done and error, and the
\* flag falls only in the update that moves the phase to done or error.
C7_RunningFlag ==
    /\ [](backupStatus.running = FALSE <=> backupStatus.phase \in {"idle", "done", "error"})
    /\ [](backupStatus.running = TRUE <=>
            backupStatus.phase \in {"preparing", "packing", "encrypting", "writing"})
    /\ [][(backupStatus.running /\ ~backupStatus'.running) =>
            /\ backupStatus.phase \notin {"done", "error"}
            /\ backupStatus'.phase \in {"done", "error"}]_vars

C7_Witness == backupStatus.running = FALSE /\ backupStatus.phase = "done"

\* C8: a run in which a step failed is never reported as done, and once its
\* promise chain has handled the failure the status is phase error, not
\* running, with a non-empty error message; a run ends as resolved only
\* without a failure.
C8_FailureIsError ==
    \A j \in Runs :
        /\ runs[j].err # None => backupStatus.phase # "done"
        /\ runs[j].pc \in {"rejected", "caught"} => runs[j].err # None
        /\ runs[j].pc = "resolved" => runs[j].err = None /\ backupStatus.phase = "done"
        /\ runs[j].pc = "caught" =>
             /\ backupStatus.phase = "error"
             /\ backupStatus.running = FALSE
             /\ backupStatus.error # None
             /\ Trim(backupStatus.error[1]) # << >>

\* tar exited with code 2 and nothing but white space on stderr
C8_Witness ==
    /\ \E j \in Runs : runs[j].pc = "caught"
    /\ backupStatus.error = Some(<<"tar beendet mit Exit-Code ", "2">>)

C10_ChecksumMatches ==
    backupStatus.phase = "done" =>
        /\ backupStatus.archiveFileName # None
        /\ LET name == backupStatus.archiveFileName[1] IN
             /\ Exists(files, name)
             /\ Exists(files, checksumPath(name))
             /\ files[checksumPath(name)] = ChecksumLine(Sha256(files[name]), name)

C10_Witness ==
    /\ backupStatus.phase = "done"
    /\ backupStatus.archiveSizeBytes = Some(artifactSize(2))

\* C12: with a blank BACKUP_ENCRYPTION_KEY every startBackupJob call returns
\* started:false with the not-configured reason and changes nothing, so the
\* status stays as it was and no run exists; with a passphrase equal to the
\* content key's hex form a started run never gets past its entry and its
\* outcome is phase error with the dual-use message, never done. In both cases
\* the backup directory stays empty.
C12_PassphraseRejected ==
    /\ [][(StartBackupJob /\ Trim(env) = << >>) =>
            /\ RejectedAs(ReasonNoKey)'
            /\ UNCHANGED <<backupStatus, backupPromise, runs, files>>]_vars
    /\ [](Trim(env) = << >> =>
            /\ backupStatus = defaultStatus
            /\ \A j \in Runs : runs[j].pc = "idle"
            /\ DOMAIN files = {})
    /\ []((contentKey # None /\ Trim(env) = contentKey[1]) =>
            /\ backupStatus.phase # "done"
            /\ \A j \in Runs :
                 /\ runs[j].pc \in {"idle", "rejected", "caught"}
                 /\ runs[j].pc = "caught" =>
                      /\ backupStatus.phase = "error"
                      /\ backupStatus.error = Some(ErrPassphraseIsContentKey)
            /\ DOMAIN files = {})

C12_Witness ==
    /\ contentKey # None
    /\ Trim(env) = contentKey[1]
    /\ backupPromise = None
    /\ backupStatus.phase = "error"
    /\ backupStatus.error = Some(ErrPassphraseIsContentKey)

----------------------------------------------------------------------------
(* Claims about the locks *)

\* C13: for every key, served by withWriteLock or by withMutationLock, at most
\* one task is running, and a request's task has started only if the task of
\* every earlier request for the same key has started (and, with the first
\* part, has ended).
C13_LockExclusionAndOrder ==
    /\ \A key \in LockKeys :
         Cardinality({r \in Requests : lockReqs[r].key = key /\ lockReqs[r].pc = "running"}) <= 1
    /\ \A r1, r2 \in Requests :
         (r1 < r2 /\ lockReqs[r1].key = lockReqs[r2].key
                  /\ lockReqs[r2].pc \in {"running", "done"}) =>
             lockReqs[r1].pc = "done"

\* three requests for one file: the first has ended, the second runs, the third waits
C13_Witness ==
    /\ \A r \in 1..3 : lockReqs[r].key = "a.json"
    /\ lockReqs[1].pc = "done"
    /\ lockReqs[2].pc = "running"
    /\ lockReqs[3].pc = "waiting"

\* C14: a task's outcome, a throw included, is what its caller gets, the lock
\* is released when the task has ended, and every waiting request gets to
\* run its task, whatever the outcomes of the tasks before it.
C14_FailureReleasesLock ==
    /\ [](\A r \in Requests : lockReqs[r].pc = "done" =>
            lockReqs[r].released /\ lockReqs[r].result \in {"returned", "threw"})
    /\ \A r \in Requests : (lockReqs[r].pc = "waiting") ~> (lockReqs[r].pc = "running")

\* the task after two failed ones for the same key runs
C14_Witness ==
    /\ \A r \in 1..3 : lockReqs[r].key = MutationQueue
    /\ lockReqs[1].result = "threw"
    /\ lockReqs[2].result = "threw"
    /\ lockReqs[3].pc = "running"

----------------------------------------------------------------------------
(* Claims about the search-index rebuild *)

\* C2: at most one execution of runSearchIndexRebuild is active.
C2_OneRebuild == Cardinality({o \in Owners : RebuildActive(o)}) <= 1


----------------------------------------------------------------------------
(* Claims about the backup files *)

\* The strict artifact name pattern, written out.
StrictArtifactName(n) == \E t \in 0..MaxClock : n = outputFileName(t)

IsDirectChild(p) ==
    /\ p \notin {<< >>, <<".">>, <<"..">>}
    /\ \A i \in 1..Len(p) : p[i] # Sep

\* C11: a call holds a path only if the basename of its trimmed input is a
\* strict artifact name, the path is that name directly inside the backup
\* directory, and it is returned only if fs.stat found a regular file there;
\* every other input returns null (resolve) or false (delete). Files change
\* only in the removal steps of a deleteBackupFile call whose name resolved,
\* and only by losing that artifact or its sidecar.
C11_ResolveIsStrict ==
    /\ [](fileOp.fullPath # None =>
            /\ StrictArtifactName(pathBasename(Trim(fileOp.input)))
            /\ fileOp.fullPath[1] = pathBasename(Trim(fileOp.input))
            /\ IsDirectChild(fileOp.fullPath[1]))
    /\ [](fileOp.pc \in {"removeFile", "removeChecksum"} =>
            fileOp.op = "delete" /\ fileOp.fullPath # None)
    /\ [](fileOp.pc = "returned" =>
            /\ fileOp.result \in {Some("path"), Some("true")} <=> fileOp.fullPath # None
            /\ ~StrictArtifactName(pathBasename(Trim(fileOp.input))) =>
                 fileOp.result = IF fileOp.op = "resolve" THEN Some("null") ELSE Some("false"))
    /\ [][(fileOp.pc = "stat" /\ fileOp'.fullPath # None) =>
            IsFile(files, fileOp'.fullPath[1])]_vars
    /\ [][files' # files =>
            /\ fileOp.pc \in {"removeFile", "removeChecksum"}
            /\ DOMAIN files' \subseteq DOMAIN files
            /\ \A p \in DOMAIN files :
                 p \notin {fileOp.fullPath[1], checksumPath(fileOp.fullPath[1])} =>
                     p \in DOMAIN files' /\ files'[p] = files[p]]_vars

\* a traversal prefix in front of an existing artifact's name: the artifact
\* and its sidecar inside the backup directory are deleted
C11_Witness ==
    /\ fileOp.op = "delete"
    /\ fileOp.input = <<"..", Sep>> \o outputFileName(1)
    /\ fileOp.result = Some("true")
    /\ ~Exists(files, outputFileName(1))
    /\ ~Exists(files, checksumPath(outputFileName(1)))
    /\ Exists(files, <<"x">>)

----------------------------------------------------------------------------
(* Claims about the attachments *)

FinalizeReturned == fin.pc = "returned"
FinalizeCalled == fin.pc # "idle"
DiskBefore == fin.before[1]
\* the upload the call is about: the file at the resolved quarantine path
UploadContent ==
    IF fin.quarantinePath # << >> /\ IsFile(DiskBefore.files, fin.quarantinePath)
    THEN DiskBefore.files[fin.quarantinePath] ELSE << >>
SanitizedExtension == normalizeExtension(sanitizeOriginalFileName(fin.input.originalName))
NoRecordPersisted == attDisk.attachments = DiskBefore.attachments
BeginsWith(content, signatures) == content # << >> /\ content[1] \in signatures

\* C15: when a finalize call ended without ok:true (a gate failed or a step
\* raised), the quarantine file it resolved no longer exists, the attachments
\* directory holds no blob it did not hold at the call, and the metadata store
\* is as it was at the call.
C15_FailureLeavesNothing ==
    (FinalizeReturned /\ fin.result # "ok:true") =>
        /\ fin.quarantinePath # << >> => ~Exists(attDisk.files, fin.quarantinePath)
        /\ BlobPaths(attDisk.files) \subseteq BlobPaths(DiskBefore.files)
        /\ attDisk.attachments = DiskBefore.attachments

\* C16: whatever the declared MIME type and the scan mode, a call whose
\* sanitized name has the extension pdf and whose upload does not begin with
\* %PDF- never reaches the scan, never returns ok:true, returns ok:false when it
\* returns, and leaves the metadata store as it was.
C16_NonPdfRejected ==
    (FinalizeCalled /\ SanitizedExtension = <<"pdf">> /\ ~BeginsWith(UploadContent, {"%PDF-"})) =>
        /\ fin.scan = None
        /\ fin.result # "ok:true"
        /\ (FinalizeReturned /\ fin.result # "raised") => fin.result = "ok:false"
        /\ NoRecordPersisted

\* a.PDF declared application/pdf with the signature after other bytes
C16_Witness ==
    /\ FinalizeReturned
    /\ fin.input.originalName = <<"a", ".", "PDF">>
    /\ fin.input.mimeType = <<"application/pdf">>
    /\ fin.input.quarantinePath = <<QuarantineDir, Sep, "up1">>
    /\ UploadContent = <<"data", "%PDF-">>
    /\ fin.result = "ok:false"
    /\ fin.error = "Datei ist kein valides PDF."
    /\ ~Exists(attDisk.files, fin.quarantinePath)

ZipExtensions == {<<"docx">>, <<"xlsx">>, <<"pptx">>}
TextExtensions == {<<"txt">>, <<"md">>, <<"csv">>}
NoNulInFirstWindow(content) ==
    \A i \in 1..Len(content) : i <= TextWindow => content[i] # "NUL"

\* C17 as stated: an accepted docx, xlsx or pptx begins with the ZIP
\* local-file-header signature, an accepted txt, md or csv has no NUL byte in
\* its first content window.
C17_ZipLocalHeaderOnly ==
    fin.result = "ok:true" =>
        /\ SanitizedExtension \in ZipExtensions => BeginsWith(UploadContent, {"PK0304"})
        /\ SanitizedExtension \in TextExtensions => NoNulInFirstWindow(UploadContent)

\* C17, amended: an accepted docx, xlsx or pptx begins with one of the three
\* ZIP signatures PK 03 04 (local file header), PK 05 06 (end of central
\* directory) or PK 07 08 (data descriptor); an accepted txt, md or csv has no
\* NUL byte in its first content window; any other content for these
\* extensions never reaches the scan and persists no record.
C17_ZipSignatures ==
    /\ (FinalizeCalled /\ SanitizedExtension \in ZipExtensions
           /\ ~BeginsWith(UploadContent, {"PK0304", "PK0506", "PK0708"})) =>
            fin.scan = None /\ fin.result # "ok:true" /\ NoRecordPersisted
    /\ (FinalizeCalled /\ SanitizedExtension \in TextExtensions
           /\ ~NoNulInFirstWindow(UploadContent)) =>
            fin.scan = None /\ fin.result # "ok:true" /\ NoRecordPersisted

\* a docx that is an empty archive (end-of-central-directory signature first)
\* is accepted
C17_Witness ==
    /\ fin.result = "ok:true"
    /\ SanitizedExtension = <<"docx">>
    /\ UploadContent = <<"PK0506">>
    /\ Len(attDisk.attachments) = Len(DiskBefore.attachments) + 1

DeclaredMime == fin.input.mimeType

\* C18 as stated: ok:true only if the extension is in the table and the
\* declared MIME type is a member of its allowed set.
C18_DeclaredMimeInSet ==
    fin.result = "ok:true" =>
        /\ HasExtension(SanitizedExtension)
        /\ Len(DeclaredMime) = 1
        /\ DeclaredMime[1] \in ALLOWED_EXTENSION_TO_MIME[SanitizedExtension[1]]

\* the declared type as the handler compares it: trimmed, lower-cased, and
\* application/octet-stream when it is missing or empty
ComparedMime ==
    IF Trim(DeclaredMime) = << >> THEN <<"application/octet-stream">>
    ELSE LowerCase(Trim(DeclaredMime))
ComparedMimeOf(declared) ==
    IF Trim(declared) = << >> THEN "application/octet-stream"
    ELSE LowerCase(Trim(declared))[1]

\* C18, amended: ok:true only if the lower-cased extension of the sanitized
\* name is in the table and the declared MIME type, trimmed and lower-cased
\* and taken as application/octet-stream when missing or empty, is a member of
\* that extension's allowed set; every other call never reaches the signature
\* checks, never returns ok:true and persists no record.
C18_ComparedMimeInSet ==
    (FinalizeCalled /\ ~( /\ HasExtension(SanitizedExtension)
                         /\ Len(ComparedMime) = 1
                         /\ ComparedMime[1] \in ALLOWED_EXTENSION_TO_MIME[SanitizedExtension[1]] )) =>
        /\ fin.pc \notin {"sniff", "text", "scan", "rename", "hash", "save"}
        /\ fin.result # "ok:true"
        /\ NoRecordPersisted

\* a PDF uploaded without a declared type is accepted
C18_Witness ==
    /\ fin.result = "ok:true"
    /\ SanitizedExtension = <<"pdf">>
    /\ DeclaredMime = << >>
    /\ attDisk.attachments[Len(attDisk.attachments)].mimeType = << >>

\* The table of C19: what the scan gate does for a mode and a scanner outcome.
ScanGate(mode, outcome) ==
    IF mode = "off" THEN "skipped"
    ELSE IF outcome = "exit0" THEN "clean"
    ELSE IF outcome = "exit1" THEN "rejected"
    ELSE IF mode = "required" THEN "rejected"
    ELSE "skipped"

\* C19: once the scan has run, the call is past the gate exactly when the table
\* says clean or skipped, and a call that then returns ok:true has persisted
\* the record with that scan status; when the table says rejected (infected
\* under both modes) the call removes the file, returns ok:false and persists
\* no record.
C19_ScanGateTable ==
    fin.scan # None =>
        LET gate == ScanGate(scanMode, fin.outcome) IN
        /\ gate = "rejected" =>
             /\ fin.pc \in {"remove", "returned"}
             /\ FinalizeReturned => fin.result = "ok:false"
             /\ NoRecordPersisted
        /\ gate # "rejected" =>
             /\ fin.pc \in {"rename", "hash", "save", "returned"}
             /\ FinalizeReturned => fin.result \in {"ok:true", "raised"}
             /\ fin.result = "ok:true" =>
                  attDisk.attachments[Len(attDisk.attachments)].scanStatus = gate

\* under optional a scanner that exits with 2 lets the upload in as skipped
C19_Witness ==
    /\ scanMode = "optional"
    /\ fin.outcome = "exit2"
    /\ fin.result = "ok:true"
    /\ attDisk.attachments[Len(attDisk.attachments)].scanStatus = "skipped"

\* the supplied path names a file directly inside the quarantine directory
LiesInsideQuarantine(p) ==
    Len(p) = 3 /\ p[1] = QuarantineDir /\ p[2] = Sep /\ p[3] \notin {".", ".."}

\* C20: a call whose quarantinePath does not lie strictly inside the quarantine
\* directory has returned ok:false at once, and no file was moved or deleted.
C20_OutsidePathRejected ==
    (FinalizeCalled /\ ~LiesInsideQuarantine(fin.input.quarantinePath)) =>
        /\ FinalizeReturned
        /\ fin.result = "ok:false"
        /\ attDisk.files = DiskBefore.files

\* the attachment a successful call returns
FinalizedAttachment == NewAttachment(fin, FinalizeId)
LastStored == attDisk.attachments[Len(attDisk.attachments)]

\* C21: when finalize returned ok:true, the quarantine file is gone, the blob
\* with the upload's bytes is in the attachments directory under
\* attachment.storageName, the name ends with "." and the lower-cased extension
\* of the sanitized name, sizeBytes and sha256 are those of the blob, and the
\* store is what loadAttachments read plus that one record at its end.
C21_FinalizedArtifact ==
    fin.result = "ok:true" =>
        LET A == FinalizedAttachment
            blobPath == <<AttachmentsFileDir, Sep>> \o A.storageName IN
        /\ ~Exists(attDisk.files, fin.quarantinePath)
        /\ IsFile(attDisk.files, blobPath)
        /\ blobPath \notin DOMAIN DiskBefore.files
        /\ attDisk.files[blobPath] = UploadContent
        /\ Len(A.storageName) >= 3
        /\ SubSeq(A.storageName, Len(A.storageName) - 1, Len(A.storageName))
             = <<".">> \o SanitizedExtension
        /\ A.sizeBytes = Len(attDisk.files[blobPath])
        /\ A.sha256 = Sha256(attDisk.files[blobPath])
        /\ attDisk.attachments = Append(loadAttachments(DiskBefore.attachments), A)
        /\ Cardinality({i \in DOMAIN attDisk.attachments : attDisk.attachments[i].id = A.id}) = 1

\* a.PDF accepted next to an attachment stored earlier
C21_Witness ==
    /\ fin.result = "ok:true"
    /\ fin.input.originalName = <<"a", ".", "PDF">>
    /\ DiskBefore.attachments = <<StoredAttachment>>
    /\ Len(attDisk.attachments) = 2
    /\ LastStored.storageName = <<"uuid2", ".", "pdf">>
    /\ LastStored.sha256 = Sha256(<<"%PDF-", "data">>)

\* C30: after finalize returned ok:true with attachment A, getAttachmentById
\* and listAttachmentsBySlug return a record equal to A.
C30_FinalizedIsListed ==
    fin.result = "ok:true" =>
        LET A == FinalizedAttachment IN
        /\ getAttachmentById(attDisk.attachments, A.id) = Some(A)
        /\ \E i \in DOMAIN listAttachmentsBySlug(attDisk.attachments, A.slug) :
             listAttachmentsBySlug(attDisk.attachments, A.slug)[i] = A

----------------------------------------------------------------------------
(* Claims about the attachment store under its lock *)

StoredIds(stored) == {stored[i].id : i \in DOMAIN stored}
\* the entries of attachments.json that a step took out of the file
RemovedEntries == {attDisk.attachments[i] : i \in DOMAIN attDisk.attachments} \
                     {e \in {attDisk.attachments[i] : i \in DOMAIN attDisk.attachments} :
                        e.id \in StoredIds(attDisk'.attachments)}

\* C22: a step of deleteAttachmentById takes an entry out of the metadata store
\* only if the actor is an administrator or the entry's uploader; a call that
\* ends without deleting (another actor, an unknown id) has changed neither the
\* store nor the blobs.
C22_DeleteAuthorized ==
    [][\A r \in Requests :
          (ops[r].kind = "deleteById" /\ ops'[r] # ops[r]) =>
             /\ \A e \in RemovedEntries :
                  ops[r].input.isAdmin \/ e.uploadedById = Trim(ops[r].input.actorId)
             /\ (ops'[r].pc = "done" /\ ~ops'[r].result.deleted) => attDisk' = attDisk]_vars

\* C23: the save of deleteAttachmentsForPage leaves in the store exactly the
\* entries whose normalized slug differs from the normalized input, in their
\* order, and the call reports the number of entries that left the store; a
\* call that returns 0 without saving found no entry of that slug and changed
\* nothing.
C23_PageDeleteExact ==
    [][\A r \in Requests :
          (ops[r].kind = "deleteForPage" /\ ops'[r] # ops[r] /\ ops[r].pc \in {"load", "save"}) =>
             LET slug == normalizeSlug(ops[r].input)
                 expected == IF slug = << >> THEN attDisk.attachments
                             ELSE SelectSeq(attDisk.attachments,
                                            LAMBDA e : normalizeSlug(e.slug) # slug) IN
             /\ ops[r].pc = "save" =>
                  /\ attDisk'.attachments = expected
                  /\ ops'[r].result.count = Len(attDisk.attachments) - Len(expected)
             /\ ops[r].pc = "load" =>
                  /\ attDisk' = attDisk
                  /\ ops'[r].pc = "done" =>
                       ops'[r].result.count = 0 /\ expected = attDisk.attachments]_vars

\* What each call does to the disk when it runs alone.
SerialRecord(r, input) ==
    [ id |-> AttachmentIds[r], uploadedById |-> Trim(input.uploadedById),
      slug |-> normalizeSlug(input.slug), storageName |-> <<Uuids[r + 1], ".", "pdf">>,
      originalName |-> <<"a", ".", "pdf">>, mimeType |-> LowerCase(Trim(input.mimeType)),
      extension |-> <<"pdf">>, sizeBytes |-> 2, sha256 |-> Sha256(<<"%PDF-", "data">>),
      scanStatus |-> "skipped" ]
SerialFinalize(d, r, input) ==
    IF ComparedMimeOf(input.mimeType) \in ALLOWED_EXTENSION_TO_MIME.pdf
    THEN [attachments |-> Append(loadAttachments(d.attachments), SerialRecord(r, input))]
    ELSE d
SerialDeleteById(d, input) ==
    LET entries == loadAttachments(d.attachments)
        hit == {i \in DOMAIN entries : entries[i].id = input.attachmentId} IN
    IF Trim(input.actorId) = << >> \/ hit = {} THEN d
    ELSE LET i == CHOOSE i \in hit : TRUE IN
         IF input.isAdmin \/ entries[i].uploadedById = Trim(input.actorId)
         THEN [attachments |-> SelectSeq(entries, LAMBDA e : e.id # input.attachmentId)]
         ELSE d
SerialDeleteForPage(d, input) ==
    LET entries == loadAttachments(d.attachments)
        slug == LowerCase(Trim(input)) IN
    IF slug = << >> \/ \A i \in DOMAIN entries : entries[i].slug # slug THEN d
    ELSE [attachments |-> SelectSeq(entries, LAMBDA e : e.slug # slug)]
RECURSIVE SerialDisk(_)
SerialDisk(n) ==
    IF n = 0 THEN [attachments |-> InitialStore]
    ELSE LET d == SerialDisk(n - 1) IN
         CASE ops[n].kind = "finalize" -> SerialFinalize(d, n, ops[n].input)
           [] ops[n].kind = "deleteById" -> SerialDeleteById(d, ops[n].input)
           [] ops[n].kind = "deleteForPage" -> SerialDeleteForPage(d, ops[n].input)
           [] OTHER -> d
RequestsDone == {r \in Requests : lockReqs[r].pc = "done"}

C29_RecordsHaveBlobs ==
    \A i \in DOMAIN attDisk.attachments :
        IsFile(attDisk.files, <<AttachmentsFileDir, Sep>> \o attDisk.attachments[i].storageName)

\* a finalize has persisted its record and a delete has saved the store
\* without the earlier record but not yet removed that record's blob
C29_Witness ==
    /\ ops[1].kind = "finalize" /\ ops[1].result # << >> /\ ops[1].result.ok
    /\ ops[2].kind = "deleteById" /\ ops[2].pc = "remove"
    /\ StoredIds(attDisk.attachments) = {AttachmentIds[1]}
    /\ Exists(attDisk.files, StoredBlobPath)

----------------------------------------------------------------------------
(* Claims about the secret envelopes *)

Decrypted == secretOp.op = "decrypt"
\* the sealed values that the input of the last decryptSecret call equals
SealedAsInput == {s \in sealed : s.value = secretOp.input}
\* a string in which every surrogate is part of a pair
RECURSIVE WellFormed(_)
WellFormed(units) ==
    IF units = << >> THEN TRUE
    ELSE IF Len(units) >= 2 /\ units[1] = "hi" /\ units[2] = "lo"
         THEN WellFormed(SubSeq(units, 3, Len(units)))
    ELSE units[1] \notin Surrogates /\ WellFormed(Tail(units))

\* C25 as stated: decryptSecret of what encryptSecret returned for a plaintext,
\* under the same key, is that plaintext, for every plaintext.
C25_RoundTripEveryString ==
    Decrypted =>
        \A s \in SealedAsInput :
            secretOp.key = Some(s.key) => secretOp.output = Some(Text(s.plaintext))

\* C25: decryptSecret of what encryptSecret returned for a plaintext, under
\* the same key, is that plaintext, for every plaintext that is well-formed
\* UTF-16 (the empty one included).
C25_RoundTripWellFormed ==
    Decrypted =>
        \A s \in SealedAsInput :
            (secretOp.key = Some(s.key) /\ WellFormed(s.plaintext)) =>
                secretOp.output = Some(Text(s.plaintext))

\* a sealed surrogate pair was opened under the key that sealed it
C25_Witness ==
    /\ Decrypted
    /\ \E s \in SealedAsInput :
         /\ secretOp.key = Some(s.key)
         /\ s.plaintext = <<"hi", "lo">>
         /\ s.value.prefix

\* C26: decryptSecret returns null for a prefixed value that is not an
\* envelope encryptSecret produced (altered iv, tag or ciphertext, a part
\* missing), for every prefixed value when no key is configured, and for an
\* envelope produced under another key.
C26_FailsClosed ==
    (/\ Decrypted
     /\ secretOp.input.prefix
     /\ \/ secretOp.key = None
        \/ \A s \in SealedAsInput : secretOp.key # Some(s.key)) =>
        secretOp.output = None

\* C27: a value sealed under a key that is no longer the active one decrypts
\* to its plaintext under the key now active.
C27_LegacyKeyDecrypts ==
    Decrypted =>
        \A s \in SealedAsInput :
            (secretOp.key # None /\ secretOp.key # Some(s.key) /\ WellFormed(s.plaintext)) =>
                secretOp.output = Some(Text(s.plaintext))

----------------------------------------------------------------------------
(* Claims about writeJsonFile *)

\* the documents that a call has renamed into place at the path
Installed(filePath) ==
    {Serialize(json.writes[r].data) :
        r \in {q \in Requests : /\ lockReqs[q].key = filePath
                                /\ json.writes[q].pc \in {"renamed", "done"}}}

\* C28: at every instant, also after the process has stopped in the middle of
\* a call, a target path that exists holds a complete document: the one it
\* held before the calls or one that a writeJsonFile call was given; every
\* other file a call touches is a temporary file of its own, and at most one
\* call per path is between its first write and its return.
C28_TargetComplete ==
    /\ \A filePath \in FilePaths :
         Exists(json.files, JsonPath(filePath)) =>
            json.files[JsonPath(filePath)] \in
                {Serialize(InitialDocument)} \cup Installed(filePath)
    /\ \A r, q \in Requests :
         (/\ r # q
          /\ lockReqs[r].key = lockReqs[q].key
          /\ json.writes[r].pc \in {"write", "rename", "renamed"}) =>
             json.writes[q].pc \notin {"write", "rename", "renamed"}

\* the process stopped while a call had written part of its document; the
\* target still holds the document an earlier call installed
C28_Witness ==
    /\ ProcessStopped
    /\ \E r, q \in Requests :
         /\ json.writes[r].pc = "write"
         /\ Len(json.files[json.writes[r].tempFile]) \in 1..3
         /\ json.writes[q].pc = "done"
         /\ lockReqs[q].key = lockReqs[r].key
         /\ json.files[JsonPath(lockReqs[r].key)] = Serialize(json.writes[q].data)
         /\ json.writes[q].data # json.writes[r].data

----------------------------------------------------------------------------
(* Claims about the backup job's status and artifacts *)

\* C31: a startBackupJob call made while the status reports running = false
\* and a passphrase is configured returns started:true.
C31_IdleStatusAccepts ==
    [][(StartBackupJob /\ ~backupStatus.running /\ PassphraseConfigured) => Accepted']_vars

\* C32: once the status has phase done or error, a step changes the status
\* only if it is a startBackupJob call that returns started:true.
C32_TerminalStatusFrozen ==
    [][(backupStatus.phase \in {"done", "error"} /\ backupStatus' # backupStatus) =>
            (StartBackupJob /\ Accepted')]_vars

\* the status is done, the job is still removing its temporary archive, and a
\* call rejected as already running has left the status as it was
C32_Witness ==
    /\ backupStatus.phase = "done"
    /\ RejectedAs(ReasonRunning)
    /\ lastResult[1].status = backupStatus
    /\ \E j \in Runs : runs[j].pc = "runFinally"

PhaseRank(phase) ==
    CASE phase = "idle" -> 0
      [] phase = "preparing" -> 1
      [] phase = "packing" -> 2
      [] phase = "encrypting" -> 3
      [] phase = "writing" -> 4
      [] OTHER -> 5

\* C33: a step that is not an accepted startBackupJob call leaves the phase in
\* place or moves it forward along preparing, packing, encrypting, writing,
\* done, or to error; from done and from error it leaves the phase in place.
C33_PhaseForward ==
    [][~(StartBackupJob /\ Accepted') =>
          \/ backupStatus'.phase = backupStatus.phase
          \/ /\ backupStatus.phase \notin {"done", "error"}
             /\ \/ backupStatus'.phase = "error"
                \/ /\ backupStatus'.phase \in {"packing", "encrypting", "writing", "done"}
                   /\ PhaseRank(backupStatus'.phase) > PhaseRank(backupStatus.phase)]_vars

\* a job that reported packing, encrypting and writing is copying its last bytes
C33_Witness ==
    /\ backupStatus.phase = "writing"
    /\ backupStatus.processedFiles = 2
    /\ \E j \in Runs : runs[j].pc = "writing" /\ runs[j].doneBytes = 2

\* C34: when a job has ended in phase error, no file with that job's artifact
\* name exists in the backup directory.
C34_FailedJobLeavesNoArtifact ==
    \A j \in Runs :
        (runs[j].pc = "caught" /\ runs[j].name # << >>) => ~Exists(files, runs[j].name)

----------------------------------------------------------------------------
(* Claims about the deletes' order and the upload source *)

DeleteKinds == {"deleteById", "deleteForPage"}

\* C35: a blob leaves the attachments directory only in a step of a delete
\* call whose record is no longer in the persisted store, and a removal step,
\* failed or not, changes neither the store nor the call's result, which is
\* not an error.
C35_StoreBeforeBlob ==
    [][/\ \A p \in DOMAIN attDisk.files \ DOMAIN attDisk'.files :
            IsBlobPath(p) =>
               \E r \in Requests :
                  /\ ops[r].kind \in DeleteKinds /\ ops[r].pc = "remove"
                  /\ p = resolveAttachmentPath(Head(ops[r].targets).storageName)
                  /\ Head(ops[r].targets).id \notin StoredIds(attDisk.attachments)
       /\ \A r \in Requests :
            (ops[r].kind \in DeleteKinds /\ ops[r].pc = "remove" /\ ops'[r] # ops[r]) =>
               /\ attDisk'.attachments = attDisk.attachments
               /\ Head(ops[r].targets).id \notin StoredIds(attDisk'.attachments)
               /\ ops'[r].result = ops[r].result
               /\ ops'[r].result.ok]_vars

\* a delete has returned deleted:true although the unlink of the blob failed:
\* the record is gone, the blob is still there
C35_Witness ==
    \E r \in Requests :
        /\ ops[r].kind = "deleteById" /\ ops[r].pc = "done"
        /\ ops[r].result.ok /\ ops[r].result.deleted
        /\ StoredAttachment.id \notin StoredIds(attDisk.attachments)
        /\ Exists(attDisk.files, StoredBlobPath)

\* the paths at which a step changed the disk: created, removed or rewritten
ChangedPaths ==
    {p \in DOMAIN attDisk.files \cup DOMAIN attDisk'.files :
        \/ p \notin DOMAIN attDisk.files
        \/ p \notin DOMAIN attDisk'.files
        \/ attDisk'.files[p] # attDisk.files[p]}

\* C36: the upload source of a finalize call is the basename of the trimmed
\* input joined to the quarantine directory (the directory itself for "."),
\* whatever the input; a step of the call changes no file but that source and
\* files of the attachments directory.
C36_SourceInsideQuarantine ==
    /\ []((FinalizeCalled /\ fin.quarantinePath # << >>) =>
            fin.quarantinePath \in
                {<<QuarantineDir>>,
                 <<QuarantineDir, Sep>> \o pathBasename(Trim(fin.input.quarantinePath))})
    /\ [][\A p \in ChangedPaths :
            \/ p = fin.quarantinePath /\ p[1] = QuarantineDir
            \/ p[1] = AttachmentsFileDir]_vars

\* a call given elsewhere/up1 has moved quarantine/up1 into the attachments
\* directory; the file elsewhere is as it was
C36_Witness ==
    /\ fin.result = "ok:true"
    /\ fin.input.quarantinePath = OutsidePath
    /\ ~Exists(attDisk.files, <<QuarantineDir, Sep, "up1">>)
    /\ Exists(attDisk.files, OutsidePath)
    /\ attDisk.files[OutsidePath] = OutsideContent

----------------------------------------------------------------------------
(* Claims about the search index updates *)

\* C37: when the upsert calls have returned updated:true for pages that exist,
\* the index file holds an entry for each of those pages.
C37_BothEntriesKept ==
    (\A u \in Upserters : upserts[u].pc \in {"idle", "done"}) =>
        \A u \in Upserters :
            (upserts[u].pc = "done" /\ upserts[u].updated /\ upserts[u].page # None) =>
                /\ indexFile # None
                /\ upserts[u].slug \in DOMAIN indexFile[1].pages

----------------------------------------------------------------------------
(* Claims about the user store *)

UserDone(c) == users.calls[c].pc = "done"
CreatedAdmin(c) ==
    /\ users.calls[c].kind \in InitialAdminCalls
    /\ UserDone(c)
    /\ users.calls[c].result = "created"
OnlyCallsOf(kinds) == \A c \in UserCalls : users.calls[c].kind \in kinds \cup {""}

\* C38: when only setupInitialAdmin and ensureInitialAdmin are called, in any
\* interleaving, at most one call has created a user; the call that creates
\* one found the store empty, and every other call returns without changing
\* the store.
C38_OneInitialAdmin ==
    /\ [](OnlyCallsOf(InitialAdminCalls) =>
            /\ Cardinality({c \in UserCalls : CreatedAdmin(c)}) <= 1
            /\ (\E c \in UserCalls : CreatedAdmin(c)) => Len(users.file) = 1)
    /\ [][OnlyCallsOf(InitialAdminCalls)' =>
            \A c \in UserCalls :
                (~UserDone(c) /\ UserDone(c)') =>
                    IF CreatedAdmin(c)'
                    THEN users.file = << >> /\ users.file' = <<users.calls[c].list[1]>>
                    ELSE users.file' = users.file]_vars

\* a setup call and a bootstrap call overlapped; one created the admin, the
\* other found the setup completed
C38_Witness ==
    /\ \A c \in UserCalls : UserDone(c)
    /\ \E c, d \in UserCalls :
         /\ users.calls[c].kind = "ensureInitialAdmin" /\ CreatedAdmin(c)
         /\ users.calls[d].kind = "setupInitialAdmin"
         /\ users.calls[d].waitFor = Some(c)
         /\ users.calls[d].result = "Setup bereits abgeschlossen."
    /\ Len(users.file) = 1

UpdateCalls == {"updateUserTheme", "updateUser", "touchLastLogin", "changeUserPassword",
                "migrateUserSecretStorage", "verifyUserCredentials"}

\* What the write of call c keeps: a field the call has not changed in its
\* own copy is written with the value the file holds at the time of the write.
KeepsOthersChanges(c) ==
    LET mine == loadUsers(users.calls[c].read)
        list == users.calls[c].list
        before == loadUsers(users.file)
        written == users.file'
    IN /\ Len(written) = Len(before)
       /\ \A i \in 1..Len(written) :
            \A field \in DOMAIN written[i] :
                (i <= Len(mine) /\ list[i][field] = mine[i][field]) =>
                    written[i][field] = before[i][field]

\* C39: under any interleaving of updateUserTheme, updateUser, touchLastLogin,
\* changeUserPassword, migrateUserSecretStorage and verifyUserCredentials, no
\* call's persisted change is overwritten by another call's stale copy of the
\* user list: a call that writes the store writes back, in every field it did
\* not change itself, what the file holds at that time.
C39_NoStaleOverwrite ==
    [][OnlyCallsOf(UpdateCalls) =>
            \A c \in UserCalls :
                (users.calls[c].pc = "save" /\ UserDone(c)') => KeepsOthersChanges(c)]_vars

====
